---- MODULE Spec2Model ----
(***************************************************************************)
(* my-git-helper: branch-state resolution, sync-status classification and  *)
(* the interactive workflows (save, branch, merge, copy, delete, create,   *)
(* the uncommitted-changes guard, the pull helper, conflict recovery)      *)
(* that drive the external git tool.                                       *)
(*                                                                         *)
(* Strings are sequences of tokens.  The token "origin/" stands for the    *)
(* seven characters o r i g i n /; every other token is one character that *)
(* does not occur in "origin/", so a string has exactly one token sequence *)
(* and starts_with / trim_start_matches / strip_prefix on strings are the  *)
(* same operations on token sequences.  The empty string is << >>.         *)
(***************************************************************************)
EXTENDS Integers, Sequences, FiniteSets, TLC

VARIABLES
    cmd,            \* the operation being run (main.rs Commands, or a helper)
    pc,             \* position inside the operation
    outcome,        \* "running", "ok" (Ok(..)) or the error the run ended with
    log,            \* external commands issued and prompts presented, in order
    locals,         \* repository: local branch names
    remotes,        \* repository: names X with a remote-tracking ref origin/X
    head,           \* repository: checked-out branch, << >> when detached
    dirty,          \* repository: working tree has uncommitted changes
    url,            \* repository: remote origin: "none", "empty" or "set"
    dotgit,         \* file system: the working directory holds a .git directory
    cwd,            \* file system: the process working directory: "orig" or "new"
    newdir,         \* file system: the path <name> of repo create: "absent",
                    \* "dir" (a directory) or "repo" (an initialized repository)
    target,         \* workflow local: the selection (target_input, target, source)
    new_name,       \* workflow local: the name or message typed by the user
    cur_b,          \* workflow local: current branch as read from the tool
    resolved,       \* workflow local: ResolvedBranchInfo
    remote_url,     \* workflow local: remote_url as read ("" is "empty")
    something_done, \* workflow local: git_delete's something_done
    runs,           \* completed runs of the operation (guard re-invocation)
    todo,           \* git_branch: the lines of the listing not yet displayed
    arg,            \* pure-function specifications: the inputs and scripted answers
    ret             \* pure-function specifications: the value returned

ctl  == <<cmd, pc, outcome, log>>
repo == <<locals, remotes, head, dirty, url>>
fs   == <<dotgit, cwd, newdir>>
wl   == <<target, new_name, cur_b, resolved, remote_url, something_done,
          runs, todo>>
pure == <<arg, ret>>
vars == <<cmd, pc, outcome, log, locals, remotes, head, dirty, url,
          dotgit, cwd, newdir,
          target, new_name, cur_b, resolved, remote_url, something_done, runs,
          todo, arg, ret>>

(***************************************************************************)
(* Bounds.                                                                 *)
(***************************************************************************)
\* longest input string (in tokens) given to resolve_branch_input
MaxLen == 3
\* number of distinct non-empty commit ids
MaxCommits == 3
\* how many times the uncommitted-changes guard is invoked in a row
MaxGuardRuns == 2

(***************************************************************************)
(* Strings.                                                                *)
(***************************************************************************)
Tokens == {"origin/", "a", "b"}

RECURSIVE StringsUpTo(_)
StringsUpTo(n) ==
    IF n = 0 THEN {<< >>}
    ELSE LET shorter == StringsUpTo(n - 1)
         IN  shorter \cup {Append(s, t) : s \in shorter, t \in Tokens}

\* the remote prefix: the literal "origin/" of utils.rs
OriginPrefix == <<"origin/">>

\* str::starts_with
starts_with(s, p) == Len(s) >= Len(p) /\ SubSeq(s, 1, Len(p)) = p

\* str::strip_prefix applied once (what remains after ONE leading prefix)
strip_prefix_once(s, p) == SubSeq(s, Len(p) + 1, Len(s))

\* str::trim_start_matches: removes the prefix REPEATEDLY, as long as it matches
RECURSIVE trim_start_matches(_, _)
trim_start_matches(s, p) ==
    IF Len(p) > 0 /\ starts_with(s, p)
    THEN trim_start_matches(SubSeq(s, Len(p) + 1, Len(s)), p)
    ELSE s

is_empty(s) == Len(s) = 0

(***************************************************************************)
(* Command Runner results.  A scripted answer of the tool is "ok" (zero    *)
(* exit), "nonzero" (non-zero exit) or "spawn" (the process could not be   *)
(* started).                                                               *)
(***************************************************************************)
Exits == {"ok", "nonzero", "spawn"}

\* run_check_exit_code_zero treating a non-zero exit as an error, as the
\* other two modes do
run_check_exit_code_zero_strict(exit) ==
    IF exit = "ok" THEN "true" ELSE "Err"

\* run_check_exit_code_zero: Ok(true), Ok(false) or Err
run_check_exit_code_zero(exit) ==
    IF exit = "spawn" THEN "Err" ELSE IF exit = "ok" THEN "true" ELSE "false"

\* execute_git_command_internal (run_stdout, run_interactive): Ok or Err
execute_git_command_internal(exit) ==
    IF exit = "ok" THEN "Ok" ELSE "Err"

(***************************************************************************)
(* Branch Resolver: resolve_branch_input.                                  *)
(* exitLocal / exitRemote are the tool's exits for the two rev-parse       *)
(* --verify probes; `queries` lists the refs actually probed, in order.    *)
(***************************************************************************)
local_candidate_name(name_from_user) ==
    IF starts_with(name_from_user, OriginPrefix)
    THEN trim_start_matches(name_from_user, OriginPrefix)
    ELSE name_from_user

remote_tracking_candidate_name(name_from_user) ==
    IF starts_with(name_from_user, OriginPrefix)
    THEN name_from_user
    ELSE OriginPrefix \o name_from_user

\* the resolver probing the local candidate for every input
resolve_branch_input_probing_both(name_from_user, exitLocal, exitRemote) ==
    LET lc == local_candidate_name(name_from_user)
        rc == remote_tracking_candidate_name(name_from_user)
        probeLocal == TRUE
        vl == run_check_exit_code_zero(exitLocal)
        vr == run_check_exit_code_zero(exitRemote)
        ql == [a |-> lc, r |-> exitLocal]
        qr == [a |-> rc, r |-> exitRemote]
        base == [err |-> FALSE,
                 local_candidate_name |-> lc,
                 local_exists |-> FALSE,
                 remote_tracking_candidate_name |-> rc,
                 remote_tracking_exists |-> FALSE,
                 queries |-> << >>]
    IN  IF probeLocal /\ vl = "Err"
        THEN [base EXCEPT !.err = TRUE, !.queries = <<ql>>]
        ELSE LET le == probeLocal /\ vl = "true"
                 qs == (IF probeLocal THEN <<ql>> ELSE << >>) \o <<qr>>
             IN  IF vr = "Err"
                 THEN [base EXCEPT !.err = TRUE, !.queries = qs]
                 ELSE [base EXCEPT !.local_exists = le,
                                   !.remote_tracking_exists = (vr = "true"),
                                   !.queries = qs]

\* utils.rs 140-167: the candidates, the probes made and their results
resolve_branch_input(name_from_user, exitLocal, exitRemote) ==
    LET lc == local_candidate_name(name_from_user)
        rc == remote_tracking_candidate_name(name_from_user)
        probeLocal == ~starts_with(name_from_user, OriginPrefix)
        vl == run_check_exit_code_zero(exitLocal)
        vr == run_check_exit_code_zero(exitRemote)
        ql == [a |-> lc, r |-> exitLocal]
        qr == [a |-> rc, r |-> exitRemote]
        base == [err |-> FALSE,
                 local_candidate_name |-> lc,
                 local_exists |-> FALSE,
                 remote_tracking_candidate_name |-> rc,
                 remote_tracking_exists |-> FALSE,
                 queries |-> << >>]
    IN  IF probeLocal /\ vl = "Err"
        THEN [base EXCEPT !.err = TRUE, !.queries = <<ql>>]
        ELSE LET le == probeLocal /\ vl = "true"
                 qs == (IF probeLocal THEN <<ql>> ELSE << >>) \o <<qr>>
             IN  IF vr = "Err"
                 THEN [base EXCEPT !.err = TRUE, !.queries = qs]
                 ELSE [base EXCEPT !.local_exists = le,
                                   !.remote_tracking_exists = (vr = "true"),
                                   !.queries = qs]

(***************************************************************************)
(* Sync-Status Classifier: get_branch_display_status.                      *)
(* Commit ids are 0 (the empty string) or 1..MaxCommits.  A scripted       *)
(* answer of a captured query is [exit, out].  The notes are the source's  *)
(* Japanese notes, written here in ASCII.                                  *)
(***************************************************************************)
CommitIds == 0 .. MaxCommits
NonEmptyIds == 1 .. MaxCommits
id_is_empty(id) == id = 0

Statuses == {"Synced", "LocalOnly", "Ahead", "Behind", "Diverged"}

Classified(status, note, qs) ==
    [err |-> FALSE, status |-> status, note |-> note, queries |-> qs]
ClassifyErr(qs) ==
    [err |-> TRUE, status |-> "Err", note |-> "", queries |-> qs]

\* the comparison against the common ancestor, with Ahead and Behind exchanged
compare_with_base_swapped(local_id, remote_id, base_id, qs) ==
    IF base_id = remote_id THEN Classified("Behind", "(needs pull)", qs)
    ELSE IF base_id = local_id THEN Classified("Ahead", "(needs push)", qs)
    ELSE Classified("Diverged", "(diverged)", qs)

\* utils.rs 196-198: the comparison against the common ancestor
compare_with_base(local_id, remote_id, base_id, qs) ==
    IF base_id = remote_id THEN Classified("Ahead", "(needs push)", qs)
    ELSE IF base_id = local_id THEN Classified("Behind", "(needs pull)", qs)
    ELSE Classified("Diverged", "(diverged)", qs)

\* the emptiness test of the remote commit id, left out
remote_id_is_empty_skipped(remote_id) == FALSE

\* utils.rs 186: remote_id.is_empty()
remote_id_is_empty(remote_id) == id_is_empty(remote_id)

get_branch_display_status(local_branch, local_id, exitVerify, ansRemoteId, ansBase) ==
    LET remote_exists == run_check_exit_code_zero(exitVerify)
        q1 == <<"rev_parse_verify">>
        q2 == Append(q1, "rev_parse_commit_id")
        q3 == Append(q2, "merge_base")
    IN  IF remote_exists = "Err" THEN ClassifyErr(q1)
        ELSE IF remote_exists = "false" THEN Classified("LocalOnly", "", q1)
        ELSE IF execute_git_command_internal(ansRemoteId.exit) = "Err"
        THEN ClassifyErr(q2)
        ELSE LET remote_id == ansRemoteId.out
             IN  IF remote_id_is_empty(remote_id)
                 THEN Classified("LocalOnly", "", q2)
                 ELSE IF local_id = remote_id THEN Classified("Synced", "", q2)
                 ELSE IF execute_git_command_internal(ansBase.exit) = "Err"
                 THEN ClassifyErr(q3)
                 ELSE compare_with_base(local_id, remote_id, ansBase.out, q3)

(***************************************************************************)
(* Values the variables hold while they are not in use.                    *)
(***************************************************************************)
NoResolved == [err |-> FALSE, local_candidate_name |-> << >>,
               local_exists |-> FALSE,
               remote_tracking_candidate_name |-> << >>,
               remote_tracking_exists |-> FALSE, queries |-> << >>]
NoArg == [none |-> TRUE]
NoRet == [none |-> TRUE]

IdleRepo ==
    /\ locals = {} /\ remotes = {} /\ head = << >>
    /\ dirty = FALSE /\ url = "none"

IdleFs == dotgit = TRUE /\ cwd = "orig" /\ newdir = "absent"

IdleLocals ==
    /\ target = << >> /\ new_name = << >> /\ cur_b = << >>
    /\ resolved = NoResolved /\ remote_url = ""
    /\ something_done = FALSE /\ runs = 0 /\ todo = << >>

(***************************************************************************)
(* SpecResolve: resolve_branch_input applied to every input string of at   *)
(* most MaxLen tokens, under every pair of exits of the two probes.        *)
(***************************************************************************)
ResolveArgs ==
    [name : StringsUpTo(MaxLen), exitLocal : Exits, exitRemote : Exits]

InitResolve ==
    /\ cmd = "resolve_branch_input" /\ pc = "call"
    /\ outcome = "running" /\ log = << >>
    /\ IdleRepo /\ IdleFs /\ IdleLocals
    /\ arg \in ResolveArgs
    /\ ret = NoRet

CallResolve ==
    /\ cmd = "resolve_branch_input" /\ pc = "call"
    /\ ret' = resolve_branch_input(arg.name, arg.exitLocal, arg.exitRemote)
    /\ pc' = "returned"
    /\ outcome' = IF ret'.err THEN "Err" ELSE "ok"
    /\ UNCHANGED <<cmd, log, repo, fs, wl, arg>>

NextResolve == CallResolve

SpecResolve == InitResolve /\ [][NextResolve]_vars

(***************************************************************************)
(* SpecClassify: get_branch_display_status applied to every non-empty      *)
(* local commit id (its only caller, get_branch_display_info, passes no    *)
(* empty one) under every scripted answer of its three queries.            *)
(***************************************************************************)
Answers ==
    {[exit |-> "ok", out |-> c] : c \in CommitIds}
        \cup {[exit |-> e, out |-> 0] : e \in {"nonzero", "spawn"}}

ClassifyArgs ==
    [local_branch : {<<"a">>}, local_id : NonEmptyIds, exitVerify : Exits,
     ansRemoteId : Answers, ansBase : Answers]

InitClassify ==
    /\ cmd = "get_branch_display_status" /\ pc = "call"
    /\ outcome = "running" /\ log = << >>
    /\ IdleRepo /\ IdleFs /\ IdleLocals
    /\ arg \in ClassifyArgs
    /\ ret = NoRet

CallClassify ==
    /\ cmd = "get_branch_display_status" /\ pc = "call"
    /\ ret' = get_branch_display_status(arg.local_branch, arg.local_id,
                   arg.exitVerify, arg.ansRemoteId, arg.ansBase)
    /\ pc' = "returned"
    /\ outcome' = IF ret'.err THEN "Err" ELSE "ok"
    /\ UNCHANGED <<cmd, log, repo, fs, wl, arg>>

NextClassify == CallClassify

SpecClassify == InitClassify /\ [][NextClassify]_vars

(***************************************************************************)
(* The revision of the resolver and of the classifier in                   *)
(* my-git-helper/src/utils.rs.  Both revisions ask their queries through   *)
(* the same GitCommandTrait, so a scripted answer means the same to both.  *)
(***************************************************************************)
\* the resolver of my-git-helper removing one leading "origin/" only
helper_resolve_branch_input_stripping_once(name_from_user, exitLocal, exitRemote) ==
    LET prefixed == starts_with(name_from_user, OriginPrefix)
        local_name == IF prefixed
                      THEN strip_prefix_once(name_from_user, OriginPrefix)
                      ELSE name_from_user
        remote_name == IF prefixed THEN name_from_user
                       ELSE OriginPrefix \o name_from_user
        first == IF prefixed THEN << >>
                 ELSE <<[a |-> local_name, r |-> exitLocal]>>
        second == Append(first, [a |-> remote_name, r |-> exitRemote])
        local_answer == IF prefixed THEN "false"
                        ELSE run_check_exit_code_zero(exitLocal)
        remote_answer == run_check_exit_code_zero(exitRemote)
        info(failed, le, re, qs) ==
            [err |-> failed,
             local_candidate_name |-> local_name,
             local_exists |-> le,
             remote_tracking_candidate_name |-> remote_name,
             remote_tracking_exists |-> re,
             queries |-> qs]
    IN  CASE local_answer = "Err" -> info(TRUE, FALSE, FALSE, first)
          [] local_answer # "Err" /\ remote_answer = "Err" ->
                info(TRUE, FALSE, FALSE, second)
          [] OTHER ->
                info(FALSE, local_answer = "true", remote_answer = "true", second)

\* my-git-helper utils.rs 155-182: resolve_branch_input
helper_resolve_branch_input(name_from_user, exitLocal, exitRemote) ==
    LET prefixed == starts_with(name_from_user, OriginPrefix)
        \* 159-165: the two candidate names
        local_name == IF prefixed
                      THEN trim_start_matches(name_from_user, OriginPrefix)
                      ELSE name_from_user
        remote_name == IF prefixed THEN name_from_user
                       ELSE OriginPrefix \o name_from_user
        \* 167-171: the local probe, made for an unprefixed name only
        first == IF prefixed THEN << >>
                 ELSE <<[a |-> local_name, r |-> exitLocal]>>
        \* 173-174: the remote probe, made when the local one did not fail
        second == Append(first, [a |-> remote_name, r |-> exitRemote])
        local_answer == IF prefixed THEN "false"
                        ELSE run_check_exit_code_zero(exitLocal)
        remote_answer == run_check_exit_code_zero(exitRemote)
        info(failed, le, re, qs) ==
            [err |-> failed,
             local_candidate_name |-> local_name,
             local_exists |-> le,
             remote_tracking_candidate_name |-> remote_name,
             remote_tracking_exists |-> re,
             queries |-> qs]
    IN  CASE local_answer = "Err" -> info(TRUE, FALSE, FALSE, first)
          [] local_answer # "Err" /\ remote_answer = "Err" ->
                info(TRUE, FALSE, FALSE, second)
          [] OTHER ->
                info(FALSE, local_answer = "true", remote_answer = "true", second)

\* my-git-helper utils.rs 188-215: get_branch_display_status
helper_get_branch_display_status(local_branch, local_id, exitVerify, ansRemoteId, ansBase) ==
    LET verified == <<"rev_parse_verify">>
        identified == verified \o <<"rev_parse_commit_id">>
        based == identified \o <<"merge_base">>
        remote_exists == run_check_exit_code_zero(exitVerify)
        remote_id == ansRemoteId.out
        base_id == ansBase.out
    IN  CASE remote_exists = "Err" -> ClassifyErr(verified)
          \* 194-196
          [] remote_exists = "false" -> Classified("LocalOnly", "", verified)
          \* 198-199
          [] remote_exists = "true" /\ ansRemoteId.exit # "ok" ->
                ClassifyErr(identified)
          [] OTHER ->
                \* 201-203
                IF id_is_empty(remote_id)
                THEN Classified("LocalOnly", "", identified)
                \* 205-206
                ELSE IF local_id = remote_id
                THEN Classified("Synced", "", identified)
                \* 208-209
                ELSE IF ansBase.exit # "ok" THEN ClassifyErr(based)
                \* 211-213
                ELSE IF base_id = remote_id
                THEN Classified("Ahead", "(needs push)", based)
                ELSE IF base_id = local_id
                THEN Classified("Behind", "(needs pull)", based)
                ELSE Classified("Diverged", "(diverged)", based)

(***************************************************************************)
(* SpecRevisions: each call is made to both revisions with the same input  *)
(* and the same scripted answers.                                          *)
(***************************************************************************)
InitRevisions ==
    /\ pc = "call" /\ outcome = "running" /\ log = << >>
    /\ IdleRepo /\ IdleFs /\ IdleLocals
    /\ \/ cmd = "resolve_branch_input" /\ arg \in ResolveArgs
       \/ cmd = "get_branch_display_status" /\ arg \in ClassifyArgs
    /\ ret = NoRet

CallBothResolvers ==
    /\ cmd = "resolve_branch_input" /\ pc = "call"
    /\ ret' = [src |-> resolve_branch_input(arg.name, arg.exitLocal,
                           arg.exitRemote),
               helper |-> helper_resolve_branch_input(arg.name, arg.exitLocal,
                              arg.exitRemote)]
    /\ pc' = "returned"
    /\ outcome' = IF ret'.src.err THEN "Err" ELSE "ok"
    /\ UNCHANGED <<cmd, log, repo, fs, wl, arg>>

CallBothClassifiers ==
    /\ cmd = "get_branch_display_status" /\ pc = "call"
    /\ ret' = [src |-> get_branch_display_status(arg.local_branch,
                           arg.local_id, arg.exitVerify, arg.ansRemoteId,
                           arg.ansBase),
               helper |-> helper_get_branch_display_status(arg.local_branch,
                              arg.local_id, arg.exitVerify, arg.ansRemoteId,
                              arg.ansBase)]
    /\ pc' = "returned"
    /\ outcome' = IF ret'.src.err THEN "Err" ELSE "ok"
    /\ UNCHANGED <<cmd, log, repo, fs, wl, arg>>

NextRevisions == CallBothResolvers \/ CallBothClassifiers

SpecRevisions == InitRevisions /\ [][NextRevisions]_vars

(***************************************************************************)
(* The workflows.  One action is one interaction of the orchestrator with  *)
(* the outside (one external command, or one prompt) together with the     *)
(* code that runs up to the next interaction.  Every external command      *)
(* may exit non-zero or fail to spawn; the answers of the queries follow   *)
(* the repository state.                                                   *)
(***************************************************************************)
\* the branch names of the repository; one of them begins with "origin/"
BranchNames == {<<"a">>, <<"a", "b">>, <<"origin/", "a">>}
\* git lists branches sorted by name
BranchOrder == << <<"a">>, <<"a", "b">>, <<"n">>, <<"origin/", "a">> >>
\* the line "(HEAD detached at ...)" that git branch prints when detached
DetachedLine == <<"(HEAD detached)">>
\* what the user may type at a text prompt: nothing, a known or a new name
TypedInputs == {<< >>, <<"a">>, <<"n">>}
\* the one remote this tool talks to
Origin == <<"origin">>
Yes == <<"yes">>
No == <<"no">>
Confirms == {Yes, No}

GitEv(op, a, b, exit) == [k |-> "git", op |-> op, a |-> a, b |-> b, r |-> exit]
PromptEv(op, answer) ==
    [k |-> "prompt", op |-> op, a |-> answer, b |-> << >>, r |-> "ok"]
\* a call of std::fs, std::env or std::path made by the orchestrator itself
FsEv(op, path, result) ==
    [k |-> "fs", op |-> op, a |-> path, b |-> << >>, r |-> result]
FsResults == {"ok", "fail"}

\* main.rs 56-61, 84-87, 95-97: commands run through run_check_exit_code_zero
ExitCodeOnlyOps == {"merge", "pull", "rev_parse_verify"}
\* main.rs 53-55: commands run through run_stdout
CapturedOps == {"remote_get_url", "branch_list_all_str", "branch_list_local_str",
                "symbolic_ref_head", "rev_parse_commit_id", "status_porcelain_v1",
                "merge_base", "show_branch_tree"}
\* main.rs 50-52: commands run through run_interactive
InteractiveOps == {"add", "commit", "push_u", "push_delete", "branch_create_local",
                   "branch_create_local_from", "branch_delete_local_d",
                   "checkout", "checkout_b", "fetch_prune", "reset_hard_head",
                   "init", "remote_add", "remote_set_url", "remote_remove"}
\* external commands that change the repository or the working tree
SideEffectOps == {"add", "commit", "push_u", "push_delete", "branch_create_local",
                  "branch_create_local_from", "branch_delete_local_d",
                  "checkout", "checkout_b", "merge", "pull", "reset_hard_head",
                  "init", "remote_add", "remote_set_url", "remote_remove"}

\* the result the Command Runner hands to the caller for command op
RunnerResult(op, exit) ==
    IF op \in ExitCodeOnlyOps THEN run_check_exit_code_zero(exit)
    ELSE execute_git_command_internal(exit)

\* what git rev-parse --verify --quiet answers for a name
RefExists(n) ==
    \/ n \in locals
    \/ /\ starts_with(n, OriginPrefix)
       /\ strip_prefix_once(n, OriginPrefix) \in remotes
VerifyExits(n) == IF RefExists(n) THEN {"ok", "spawn"} ELSE {"nonzero", "spawn"}

\* git remote get-url origin: exits non-zero when there is no remote origin
GetUrlExits == IF url = "none" THEN {"nonzero", "spawn"} ELSE Exits
GetUrlOut == IF url = "set" THEN "url" ELSE ""

\* git symbolic-ref --short -q HEAD: the branch name; when detached the
\* tool exits non-zero, or prints "HEAD", which symbolic_ref_head (main.rs
\* 90-94) turns into the empty string
SymRefOut == head

IsOk(o) == o \in {"ok", "Ok(true)", "Ok(false)"}
IsErr(o) == o \notin {"running", "ok", "Ok(true)", "Ok(false)"}
\* errors raised by bail! on a failed precondition of a user input
ValidationErrors == {"empty_input", "already_exists", "not_found"}

Say(ev) == log' = Append(log, ev)
End(o) == pc' = "done" /\ outcome' = o
Goto(p) == pc' = p /\ outcome' = outcome

\* prompt_non_empty_input asking once more after an empty answer
prompt_non_empty_input_asking_again(message, input, next) ==
    /\ Say(PromptEv(message, input))
    /\ IF is_empty(input)
       THEN /\ new_name' = new_name
            /\ IF Len(log) > 0 /\ log[Len(log)].op = message
               THEN End("empty_input")
               ELSE Goto(pc)
       ELSE Goto(next) /\ new_name' = input

\* utils.rs 59-65: prompt_non_empty_input
prompt_non_empty_input(message, input, next) ==
    /\ Say(PromptEv(message, input))
    /\ IF is_empty(input)
       THEN End("empty_input") /\ new_name' = new_name
       ELSE Goto(next) /\ new_name' = input

\* where the caller of ensure_branch_not_exists goes on
AfterEnsureNotExists ==
    CASE cmd = "create" -> "create_branch"
      [] cmd = "copy" -> "copy_branch"
      [] cmd = "guard" -> "guard_create_branch"
      [] OTHER -> "conflict_checkout_b"

\* ensure_branch_not_exists letting an existing name pass
EnsureBranchNotExists_unchecked ==
    /\ pc = "ensure_not_exists"
    /\ \E exit \in VerifyExits(new_name) :
        /\ Say(GitEv("rev_parse_verify", new_name, << >>, exit))
        /\ IF run_check_exit_code_zero(exit) = "Err" THEN End("Err")
           ELSE Goto(AfterEnsureNotExists)
    /\ UNCHANGED <<cmd, repo, fs, wl, pure>>

\* utils.rs 231-237: ensure_branch_not_exists
EnsureBranchNotExists ==
    /\ pc = "ensure_not_exists"
    /\ \E exit \in VerifyExits(new_name) :
        /\ Say(GitEv("rev_parse_verify", new_name, << >>, exit))
        /\ LET v == run_check_exit_code_zero(exit)
           IN  IF v = "Err" THEN End("Err")
               ELSE IF v = "true" THEN End("already_exists")
               ELSE Goto(AfterEnsureNotExists)
    /\ UNCHANGED <<cmd, repo, fs, wl, pure>>

\* cmds.rs 326-327: the name prompt of git_create
CreatePromptName ==
    /\ cmd = "create" /\ pc = "start"
    /\ \E input \in TypedInputs :
        prompt_non_empty_input("new_branch_name", input, "ensure_not_exists")
    /\ UNCHANGED <<cmd, repo, fs, target, cur_b, resolved, remote_url,
                   something_done, runs, todo, pure>>

\* git branch <name> with its failure ignored: the workflow goes on
CreateBranch_ignoring_failure ==
    /\ cmd = "create" /\ pc = "create_branch"
    /\ \E exit \in Exits :
        /\ Say(GitEv("branch_create_local", new_name, << >>, exit))
        /\ Goto("push_get_url")
        /\ locals' = IF exit = "ok" THEN locals \cup {new_name} ELSE locals
    /\ UNCHANGED <<cmd, remotes, head, dirty, url, fs, wl, pure>>

\* cmds.rs 330-333: git branch <name>
CreateBranch ==
    /\ cmd = "create" /\ pc = "create_branch"
    /\ \E exit \in Exits :
        /\ Say(GitEv("branch_create_local", new_name, << >>, exit))
        /\ IF exit = "ok"
           THEN Goto("push_get_url") /\ locals' = locals \cup {new_name}
           ELSE End("Err") /\ locals' = locals
    /\ UNCHANGED <<cmd, remotes, head, dirty, url, fs, wl, pure>>

\* prompt_and_push_optional offering the push whatever the url query gave
PushOptionalGetUrl_always_offers ==
    /\ pc = "push_get_url"
    /\ \E exit \in GetUrlExits :
        /\ Say(GitEv("remote_get_url", Origin, << >>, exit))
        /\ Goto("push_confirm")
    /\ UNCHANGED <<cmd, repo, fs, wl, pure>>

\* utils.rs 260-261, 271-272: prompt_and_push_optional reads the remote url;
\* an empty url and a failed query both skip the push and return Ok
PushOptionalGetUrl ==
    /\ pc = "push_get_url"
    /\ \E exit \in GetUrlExits :
        /\ Say(GitEv("remote_get_url", Origin, << >>, exit))
        /\ IF execute_git_command_internal(exit) = "Ok" /\ GetUrlOut # ""
           THEN Goto("push_confirm")
           ELSE End("ok")
    /\ UNCHANGED <<cmd, repo, fs, wl, pure>>

\* utils.rs 262-263: the push confirmation
PushOptionalConfirm ==
    /\ pc = "push_confirm"
    /\ \E answer \in Confirms :
        /\ Say(PromptEv("confirm_push", answer))
        /\ IF answer = Yes THEN Goto("push_checkout") ELSE End("ok")
    /\ UNCHANGED <<cmd, repo, fs, wl, pure>>

\* the checkout before the push with its failure ignored
PushOptionalCheckout_ignoring_failure ==
    /\ pc = "push_checkout"
    /\ \E exit \in Exits :
        /\ Say(GitEv("checkout", new_name, << >>, exit))
        /\ Goto("push_u")
        /\ head' = IF exit = "ok" THEN new_name ELSE head
    /\ UNCHANGED <<cmd, locals, remotes, dirty, url, fs, wl, pure>>

\* utils.rs 264-266: needs_checkout is true at both call sites
PushOptionalCheckout ==
    /\ pc = "push_checkout"
    /\ \E exit \in Exits :
        /\ Say(GitEv("checkout", new_name, << >>, exit))
        /\ IF exit = "ok"
           THEN Goto("push_u") /\ head' = new_name
           ELSE End("Err") /\ head' = head
    /\ UNCHANGED <<cmd, locals, remotes, dirty, url, fs, wl, pure>>

\* utils.rs 267-268: git push -u origin <name>
PushOptionalPush ==
    /\ pc = "push_u"
    /\ \E exit \in Exits :
        /\ Say(GitEv("push_u", new_name, << >>, exit))
        /\ IF exit = "ok"
           THEN End("ok") /\ remotes' = remotes \cup {new_name}
           ELSE End("Err") /\ remotes' = remotes
    /\ UNCHANGED <<cmd, locals, head, dirty, url, fs, wl, pure>>

(***************************************************************************)
(* get_branch_select_options_for_fuzzy: the values offered for selection.  *)
(***************************************************************************)
\* the lines of git branch: the local branches, and the detached-HEAD line
LocalLines == locals \cup (IF head = << >> THEN {DetachedLine} ELSE {})

\* utils.rs 87-136: the values of the options (a set: no value twice)
get_branch_select_options_for_fuzzy ==
    LocalLines \cup {OriginPrefix \o x : x \in remotes}

\* cmds.rs 216-219: the filter of git_merge
merge_filter(options, cur) ==
    {v \in options : v # cur /\ ~starts_with(v, OriginPrefix \o cur)}

\* the options the running workflow offers
OfferedOptions ==
    IF cmd = "merge"
    THEN merge_filter(get_branch_select_options_for_fuzzy, cur_b)
    ELSE get_branch_select_options_for_fuzzy

\* utils.rs 92: git branch --no-color
ListLocal ==
    /\ pc = "list_local"
    /\ \E exit \in Exits :
        /\ Say(GitEv("branch_list_local_str", << >>, << >>, exit))
        /\ IF exit = "ok" THEN Goto("list_all") ELSE End("Err")
    /\ UNCHANGED <<cmd, repo, fs, wl, pure>>

\* utils.rs 107: git branch --all --no-color; then the caller's test for an
\* empty list (cmds.rs 221-224, 255-258, 277-280; git_switch has none)
ListAll ==
    /\ pc = "list_all"
    /\ \E exit \in Exits :
        /\ Say(GitEv("branch_list_all_str", << >>, << >>, exit))
        /\ IF exit # "ok" THEN End("Err")
           ELSE IF cmd # "switch" /\ OfferedOptions = {} THEN End("ok")
           ELSE Goto("select")
    /\ UNCHANGED <<cmd, repo, fs, wl, pure>>

\* utils.rs 75-84: prompt_fuzzy_select; << >> is no selection (Esc)
prompt_fuzzy_select(next) ==
    \E choice \in OfferedOptions \cup {<< >>} :
        /\ Say(PromptEv("select_branch", choice))
        /\ IF choice = << >>
           THEN End("ok") /\ target' = target
           ELSE Goto(next) /\ target' = choice

(***************************************************************************)
(* git_copy                                                                *)
(***************************************************************************)
\* cmds.rs 259-262
CopySelect ==
    /\ cmd = "copy" /\ pc = "select"
    /\ prompt_fuzzy_select("copy_name")
    /\ UNCHANGED <<cmd, repo, fs, new_name, cur_b, resolved, remote_url,
                   something_done, runs, todo, pure>>

\* cmds.rs 265
CopyPromptName ==
    /\ cmd = "copy" /\ pc = "copy_name"
    /\ \E input \in TypedInputs :
        prompt_non_empty_input("new_branch_name", input, "ensure_not_exists")
    /\ UNCHANGED <<cmd, repo, fs, target, cur_b, resolved, remote_url,
                   something_done, runs, todo, pure>>

\* cmds.rs 268-271: git branch <new> <source>; git refuses a source that is
\* not a ref
CopyBranch ==
    /\ cmd = "copy" /\ pc = "copy_branch"
    /\ \E exit \in (IF RefExists(target) THEN Exits ELSE {"nonzero", "spawn"}) :
        /\ Say(GitEv("branch_create_local_from", new_name, target, exit))
        /\ IF exit = "ok"
           THEN Goto("push_get_url") /\ locals' = locals \cup {new_name}
           ELSE End("Err") /\ locals' = locals
    /\ UNCHANGED <<cmd, remotes, head, dirty, url, fs, wl, pure>>

(***************************************************************************)
(* git_delete                                                              *)
(***************************************************************************)
\* cmds.rs 281-284
DeleteSelect ==
    /\ cmd = "delete" /\ pc = "select"
    /\ prompt_fuzzy_select("delete_resolve")
    /\ UNCHANGED <<cmd, repo, fs, new_name, cur_b, resolved, remote_url,
                   something_done, runs, todo, pure>>

\* the rev-parse --verify probes a call of resolve_branch_input issued
ResolveEvents(r) ==
    [i \in 1 .. Len(r.queries) |->
        GitEv("rev_parse_verify", r.queries[i].a, << >>, r.queries[i].r)]

\* cmds.rs 286: resolve_branch_input(&target_input)
DeleteResolve ==
    /\ cmd = "delete" /\ pc = "delete_resolve"
    /\ \E exitLocal \in VerifyExits(local_candidate_name(target)),
          exitRemote \in VerifyExits(remote_tracking_candidate_name(target)) :
        LET r == resolve_branch_input(target, exitLocal, exitRemote)
        IN  /\ log' = log \o ResolveEvents(r)
            /\ resolved' = r
            /\ IF r.err THEN End("Err") ELSE Goto("delete_current")
    /\ UNCHANGED <<cmd, repo, fs, target, new_name, cur_b, remote_url,
                   something_done, runs, todo, pure>>

\* cmds.rs 287: get_current_branch_name
DeleteCurrentBranch ==
    /\ cmd = "delete" /\ pc = "delete_current"
    /\ \E exit \in Exits :
        /\ Say(GitEv("symbolic_ref_head", << >>, << >>, exit))
        /\ IF exit = "ok"
           THEN Goto("delete_get_url") /\ cur_b' = SymRefOut
           ELSE End("Err") /\ cur_b' = cur_b
    /\ UNCHANGED <<cmd, repo, fs, target, new_name, resolved, remote_url,
                   something_done, runs, todo, pure>>

\* the end of git_delete with every run without a deletion ending in error
DeleteFinish_error_when_nothing_done(done) ==
    IF ~done THEN End("not_found") ELSE End("ok")

\* cmds.rs 315-323: the end of git_delete
DeleteFinish(done) ==
    IF ~done /\ ~resolved.local_exists /\ ~resolved.remote_tracking_exists
    THEN End("not_found")
    ELSE End("ok")

\* the remote part without the test of the origin URL
DeleteRemotePart_without_url(done, rurl) ==
    IF resolved.remote_tracking_exists
    THEN Goto("delete_confirm_remote")
    ELSE DeleteFinish(done)

\* cmds.rs 305: the remote part of git_delete, entered with something_done
DeleteRemotePart(done, rurl) ==
    IF resolved.remote_tracking_exists /\ rurl # ""
    THEN Goto("delete_confirm_remote")
    ELSE DeleteFinish(done)

\* the test of cmds.rs 293 left out: the current branch is not refused
DeleteLocalPart_unchecked(cur, rurl) ==
    IF resolved.local_exists
    THEN Goto("delete_confirm_local")
    ELSE DeleteRemotePart(FALSE, rurl)

\* cmds.rs 292-296: the local part of git_delete up to its prompt
DeleteLocalPart(cur, rurl) ==
    IF resolved.local_exists
    THEN IF cur = resolved.local_candidate_name
         THEN End("cannot_delete_current")
         ELSE Goto("delete_confirm_local")
    ELSE DeleteRemotePart(FALSE, rurl)

\* cmds.rs 288: get_origin_url(..).unwrap_or_default(), then 292-296
DeleteGetUrl ==
    /\ cmd = "delete" /\ pc = "delete_get_url"
    /\ \E exit \in GetUrlExits :
        /\ Say(GitEv("remote_get_url", Origin, << >>, exit))
        /\ remote_url' = IF exit = "ok" THEN GetUrlOut ELSE ""
        /\ DeleteLocalPart(cur_b, remote_url')
    /\ UNCHANGED <<cmd, repo, fs, target, new_name, cur_b, resolved,
                   something_done, runs, todo, pure>>

\* cmds.rs 296-297
DeleteConfirmLocal ==
    /\ cmd = "delete" /\ pc = "delete_confirm_local"
    /\ \E answer \in Confirms :
        /\ Say(PromptEv("confirm_local_delete", answer))
        /\ IF answer = Yes THEN Goto("delete_local")
           ELSE DeleteRemotePart(something_done, remote_url)
    /\ UNCHANGED <<cmd, repo, fs, wl, pure>>

\* the local deletion with its failure ignored: the remote part follows
DeleteLocal_ignoring_failure ==
    /\ cmd = "delete" /\ pc = "delete_local"
    /\ \E exit \in Exits :
        /\ Say(GitEv("branch_delete_local_d", resolved.local_candidate_name,
                     << >>, exit))
        /\ locals' = IF exit = "ok"
                     THEN locals \ {resolved.local_candidate_name} ELSE locals
        /\ something_done' = (exit = "ok")
        /\ DeleteRemotePart(exit = "ok", remote_url)
    /\ UNCHANGED <<cmd, remotes, head, dirty, url, fs, target, new_name, cur_b,
                   resolved, remote_url, runs, todo, pure>>

\* cmds.rs 298-300: git branch -d <local>
DeleteLocal ==
    /\ cmd = "delete" /\ pc = "delete_local"
    /\ \E exit \in Exits :
        /\ Say(GitEv("branch_delete_local_d", resolved.local_candidate_name,
                     << >>, exit))
        /\ IF exit = "ok"
           THEN /\ locals' = locals \ {resolved.local_candidate_name}
                /\ something_done' = TRUE
                /\ DeleteRemotePart(TRUE, remote_url)
           ELSE /\ locals' = locals
                /\ something_done' = something_done
                /\ End("Err")
    /\ UNCHANGED <<cmd, remotes, head, dirty, url, fs, target, new_name, cur_b,
                   resolved, remote_url, runs, todo, pure>>

\* cmds.rs 307-308
DeleteConfirmRemote ==
    /\ cmd = "delete" /\ pc = "delete_confirm_remote"
    /\ \E answer \in Confirms :
        /\ Say(PromptEv("confirm_remote_delete", answer))
        /\ IF answer = Yes THEN Goto("delete_remote")
           ELSE DeleteFinish(something_done)
    /\ UNCHANGED <<cmd, repo, fs, wl, pure>>

\* cmds.rs 309-311: git push origin --delete <local candidate>
DeleteRemote ==
    /\ cmd = "delete" /\ pc = "delete_remote"
    /\ \E exit \in Exits :
        /\ Say(GitEv("push_delete", resolved.local_candidate_name, << >>, exit))
        /\ IF exit = "ok"
           THEN /\ remotes' = remotes \ {resolved.local_candidate_name}
                /\ something_done' = TRUE
                /\ End("ok")
           ELSE /\ remotes' = remotes
                /\ something_done' = something_done
                /\ End("Err")
    /\ UNCHANGED <<cmd, locals, head, dirty, url, fs, target, new_name, cur_b,
                   resolved, remote_url, runs, todo, pure>>

(***************************************************************************)
(* handle_conflict_and_offer_new_branch (conflict recovery)                *)
(***************************************************************************)
\* utils.rs 278-280, 290-293: the offer; declining is an error
ConflictConfirm ==
    /\ pc = "conflict_confirm"
    /\ \E answer \in Confirms :
        /\ Say(PromptEv("confirm_new_branch", answer))
        /\ IF answer = Yes THEN Goto("conflict_name")
           ELSE End("declined_new_branch")
    /\ UNCHANGED <<cmd, repo, fs, wl, pure>>

\* utils.rs 281
ConflictPromptName ==
    /\ pc = "conflict_name"
    /\ \E input \in TypedInputs :
        prompt_non_empty_input("new_branch_name", input, "ensure_not_exists")
    /\ UNCHANGED <<cmd, repo, fs, target, cur_b, resolved, remote_url,
                   something_done, runs, todo, pure>>

\* utils.rs 285-289, 294: git checkout -b <name>
ConflictCheckoutB ==
    /\ pc = "conflict_checkout_b"
    /\ \E exit \in Exits :
        /\ Say(GitEv("checkout_b", new_name, << >>, exit))
        /\ IF exit = "ok"
           THEN End("ok") /\ locals' = locals \cup {new_name} /\ head' = new_name
           ELSE End("Err") /\ locals' = locals /\ head' = head
    /\ UNCHANGED <<cmd, remotes, dirty, url, fs, wl, pure>>

(***************************************************************************)
(* git_merge                                                               *)
(***************************************************************************)
\* git_merge going on with an undetermined current branch
MergeCurrentBranch_unchecked ==
    /\ cmd = "merge" /\ pc = "start"
    /\ \E exit \in Exits :
        /\ Say(GitEv("symbolic_ref_head", << >>, << >>, exit))
        /\ IF exit # "ok" THEN End("Err") /\ cur_b' = cur_b
           ELSE Goto("list_local") /\ cur_b' = SymRefOut
    /\ UNCHANGED <<cmd, repo, fs, target, new_name, resolved, remote_url,
                   something_done, runs, todo, pure>>

\* cmds.rs 213-214: the current branch; an empty name is an error
MergeCurrentBranch ==
    /\ cmd = "merge" /\ pc = "start"
    /\ \E exit \in Exits :
        /\ Say(GitEv("symbolic_ref_head", << >>, << >>, exit))
        /\ IF exit # "ok" THEN End("Err") /\ cur_b' = cur_b
           ELSE IF is_empty(SymRefOut)
           THEN End("current_unknown") /\ cur_b' = SymRefOut
           ELSE Goto("list_local") /\ cur_b' = SymRefOut
    /\ UNCHANGED <<cmd, repo, fs, target, new_name, resolved, remote_url,
                   something_done, runs, todo, pure>>

\* cmds.rs 226-232
MergeSelect ==
    /\ cmd = "merge" /\ pc = "select"
    /\ prompt_fuzzy_select("merge_ensure_exists")
    /\ UNCHANGED <<cmd, repo, fs, new_name, cur_b, resolved, remote_url,
                   something_done, runs, todo, pure>>

\* cmds.rs 234 and utils.rs 223-229: ensure_branch_exists(&target)
MergeEnsureExists ==
    /\ cmd = "merge" /\ pc = "merge_ensure_exists"
    /\ \E exit \in VerifyExits(target) :
        /\ Say(GitEv("rev_parse_verify", target, << >>, exit))
        /\ LET v == run_check_exit_code_zero(exit)
           IN  IF v = "Err" THEN End("Err")
               ELSE IF v = "false" THEN End("not_found")
               ELSE Goto("merge_run")
    /\ UNCHANGED <<cmd, repo, fs, wl, pure>>

\* git merge with a non-zero exit handled like a success
merge_result_ignoring_failure(exit) ==
    IF exit = "spawn" THEN End("Err")
    ELSE IF starts_with(target, OriginPrefix) THEN End("ok")
    ELSE Goto("merge_confirm_delete")

\* cmds.rs 236-248: what git_merge does with the result of the merge
merge_result(exit) ==
    LET v == run_check_exit_code_zero(exit)
    IN  IF v = "Err" THEN End("Err")
        ELSE IF v = "false" THEN Goto("conflict_confirm")
        ELSE IF starts_with(target, OriginPrefix) THEN End("ok")
        ELSE Goto("merge_confirm_delete")

\* cmds.rs 236: git merge <target>, read by its exit code
MergeRun ==
    /\ cmd = "merge" /\ pc = "merge_run"
    /\ \E exit \in Exits :
        /\ Say(GitEv("merge", target, << >>, exit))
        /\ merge_result(exit)
    /\ UNCHANGED <<cmd, repo, fs, wl, pure>>

\* the offer to delete the merged branch with its answer ignored
MergeConfirmDelete_ignoring_answer ==
    /\ cmd = "merge" /\ pc = "merge_confirm_delete"
    /\ \E answer \in Confirms :
        /\ Say(PromptEv("confirm_merge_delete", answer))
        /\ Goto("merge_delete")
    /\ UNCHANGED <<cmd, repo, fs, wl, pure>>

\* cmds.rs 239-242
MergeConfirmDelete ==
    /\ cmd = "merge" /\ pc = "merge_confirm_delete"
    /\ \E answer \in Confirms :
        /\ Say(PromptEv("confirm_merge_delete", answer))
        /\ IF answer = Yes THEN Goto("merge_delete") ELSE End("ok")
    /\ UNCHANGED <<cmd, repo, fs, wl, pure>>

\* cmds.rs 243-244: git branch -d <target>
MergeDelete ==
    /\ cmd = "merge" /\ pc = "merge_delete"
    /\ \E exit \in Exits :
        /\ Say(GitEv("branch_delete_local_d", target, << >>, exit))
        /\ IF exit = "ok"
           THEN End("ok") /\ locals' = locals \ {target}
           ELSE End("Err") /\ locals' = locals
    /\ UNCHANGED <<cmd, remotes, head, dirty, url, fs, wl, pure>>

(***************************************************************************)
(* git_save                                                                *)
(***************************************************************************)
\* cmds.rs 100: git add .
SaveAdd ==
    /\ cmd = "save" /\ pc = "start"
    /\ \E exit \in Exits :
        /\ Say(GitEv("add", << >>, << >>, exit))
        /\ IF exit = "ok" THEN Goto("save_message") ELSE End("Err")
    /\ UNCHANGED <<cmd, repo, fs, wl, pure>>

\* cmds.rs 101
SavePromptMessage ==
    /\ cmd = "save" /\ pc = "save_message"
    /\ \E input \in TypedInputs :
        prompt_non_empty_input("commit_message", input, "save_commit")
    /\ UNCHANGED <<cmd, repo, fs, target, cur_b, resolved, remote_url,
                   something_done, runs, todo, pure>>

\* cmds.rs 102-103: git commit -m <msg>
SaveCommit ==
    /\ cmd = "save" /\ pc = "save_commit"
    /\ \E exit \in Exits :
        /\ Say(GitEv("commit", new_name, << >>, exit))
        /\ IF exit = "ok"
           THEN Goto("save_current") /\ dirty' = FALSE
           ELSE End("Err") /\ dirty' = dirty
    /\ UNCHANGED <<cmd, locals, remotes, head, url, fs, wl, pure>>

\* cmds.rs 105-109: an unknown current branch skips the push and returns Ok
SaveCurrentBranch ==
    /\ cmd = "save" /\ pc = "save_current"
    /\ \E exit \in Exits :
        /\ Say(GitEv("symbolic_ref_head", << >>, << >>, exit))
        /\ IF exit # "ok" THEN End("Err") /\ cur_b' = cur_b
           ELSE IF is_empty(SymRefOut) THEN End("ok") /\ cur_b' = SymRefOut
           ELSE Goto("save_get_url") /\ cur_b' = SymRefOut
    /\ UNCHANGED <<cmd, repo, fs, target, new_name, resolved, remote_url,
                   something_done, runs, todo, pure>>

\* cmds.rs 111-112, 130-135: an empty url and a failed query both skip the
\* push and return Ok
SaveGetUrl ==
    /\ cmd = "save" /\ pc = "save_get_url"
    /\ \E exit \in GetUrlExits :
        /\ Say(GitEv("remote_get_url", Origin, << >>, exit))
        /\ IF execute_git_command_internal(exit) = "Ok" /\ GetUrlOut # ""
           THEN Goto("save_confirm_push")
           ELSE End("ok")
    /\ UNCHANGED <<cmd, repo, fs, wl, pure>>

\* cmds.rs 113-114, 126-128
SaveConfirmPush ==
    /\ cmd = "save" /\ pc = "save_confirm_push"
    /\ \E answer \in Confirms :
        /\ Say(PromptEv("confirm_push", answer))
        /\ IF answer = Yes THEN Goto("save_push") ELSE End("ok")
    /\ UNCHANGED <<cmd, repo, fs, wl, pure>>

\* cmds.rs 115-117: git push -u origin <current>
SavePush ==
    /\ cmd = "save" /\ pc = "save_push"
    /\ \E exit \in Exits :
        /\ Say(GitEv("push_u", cur_b, << >>, exit))
        /\ IF exit = "ok"
           THEN Goto("save_confirm_pull") /\ remotes' = remotes \cup {cur_b}
           ELSE End("Err") /\ remotes' = remotes
    /\ UNCHANGED <<cmd, locals, head, dirty, url, fs, wl, pure>>

\* cmds.rs 119
SaveConfirmPull ==
    /\ cmd = "save" /\ pc = "save_confirm_pull"
    /\ \E answer \in Confirms :
        /\ Say(PromptEv("confirm_pull", answer))
        /\ IF answer = Yes THEN Goto("save_pull") ELSE End("ok")
    /\ UNCHANGED <<cmd, repo, fs, wl, pure>>

\* git pull whose non-zero exit is only reported, as in the pull helper
SavePull_reporting_only ==
    /\ cmd = "save" /\ pc = "save_pull"
    /\ \E exit \in Exits :
        /\ Say(GitEv("pull", cur_b, << >>, exit))
        /\ IF run_check_exit_code_zero(exit) = "Err" THEN End("Err")
           ELSE End("ok")
    /\ UNCHANGED <<cmd, repo, fs, wl, pure>>

\* cmds.rs 120-124: git pull origin <current>, read by its exit code
SavePull ==
    /\ cmd = "save" /\ pc = "save_pull"
    /\ \E exit \in Exits :
        /\ Say(GitEv("pull", cur_b, << >>, exit))
        /\ LET v == run_check_exit_code_zero(exit)
           IN  IF v = "Err" THEN End("Err")
               ELSE IF v = "false" THEN Goto("conflict_confirm")
               ELSE End("ok")
    /\ UNCHANGED <<cmd, repo, fs, wl, pure>>

(***************************************************************************)
(* git_branch (the branch listing)                                         *)
(***************************************************************************)
\* the local lines of git branch --all, in git's order; the lines of
\* remote-only branches are printed without any query (cmds.rs 166-169)
ListingLines ==
    LET InLocals(n) == n \in locals
    IN  (IF head = << >> THEN <<DetachedLine>> ELSE << >>)
            \o SelectSeq(BranchOrder, InLocals)

\* cmds.rs 139-146: get_origin_url(..).unwrap_or_default()
BranchGetUrl ==
    /\ cmd = "branch" /\ pc = "start"
    /\ \E exit \in GetUrlExits :
        /\ Say(GitEv("remote_get_url", Origin, << >>, exit))
        /\ remote_url' = IF exit = "ok" THEN GetUrlOut ELSE ""
        /\ IF remote_url' # "" THEN Goto("branch_fetch")
           ELSE Goto("branch_list_all")
    /\ UNCHANGED <<cmd, repo, fs, target, new_name, cur_b, resolved,
                   something_done, runs, todo, pure>>

\* cmds.rs 142: git fetch origin --prune; a successful fetch leaves the
\* remote-tracking refs as the branches of the remote are: any of them may
\* have been added or pruned
BranchFetchPrune ==
    /\ cmd = "branch" /\ pc = "branch_fetch"
    /\ \E exit \in Exits :
        /\ Say(GitEv("fetch_prune", Origin, << >>, exit))
        /\ IF exit = "ok"
           THEN Goto("branch_list_all") /\ remotes' \in SUBSET BranchNames
           ELSE End("Err") /\ remotes' = remotes
    /\ UNCHANGED <<cmd, locals, head, dirty, url, fs, wl, pure>>

\* cmds.rs 148
BranchListAll ==
    /\ cmd = "branch" /\ pc = "branch_list_all"
    /\ \E exit \in Exits :
        /\ Say(GitEv("branch_list_all_str", << >>, << >>, exit))
        /\ IF exit = "ok" THEN Goto("branch_status") ELSE End("Err")
    /\ UNCHANGED <<cmd, repo, fs, wl, pure>>

\* cmds.rs 149-152: git status --porcelain, then the loop over the lines
BranchStatus ==
    /\ cmd = "branch" /\ pc = "branch_status"
    /\ \E exit \in Exits :
        /\ Say(GitEv("status_porcelain_v1", << >>, << >>, exit))
        /\ IF exit # "ok" THEN End("Err") /\ todo' = todo
           ELSE /\ todo' = ListingLines
                /\ IF todo' = << >> THEN End("ok") ELSE Goto("branch_line")
    /\ UNCHANGED <<cmd, repo, fs, target, new_name, cur_b, resolved, remote_url,
                   something_done, runs, pure>>

\* git rev-parse <name> fails for the detached-HEAD line, which is no ref
CommitIdExits(n) == IF n \in locals THEN Exits ELSE {"nonzero", "spawn"}

\* the queries of one classification, as log events
ClassifyEvents(name, st, exitVerify, ansRemoteId, ansBase) ==
    [i \in 1 .. Len(st.queries) |->
        GitEv(st.queries[i],
              IF st.queries[i] = "merge_base" THEN << >> ELSE OriginPrefix \o name,
              << >>,
              IF st.queries[i] = "rev_parse_verify" THEN exitVerify
              ELSE IF st.queries[i] = "rev_parse_commit_id" THEN ansRemoteId.exit
              ELSE ansBase.exit)]

\* cmds.rs 170-174 and utils.rs 202-221: get_branch_display_info for the
\* next local line: the local commit id, then (with a remote url and a
\* non-empty id) the classification; any error ends the listing
BranchDisplayInfo ==
    /\ cmd = "branch" /\ pc = "branch_line"
    /\ LET name == Head(todo)
       IN  \E ansLocal \in {a \in Answers : a.exit \in CommitIdExits(name)},
              exitVerify \in VerifyExits(OriginPrefix \o name),
              ansRemoteId \in Answers, ansBase \in Answers :
            LET q0 == GitEv("rev_parse_commit_id", name, << >>, ansLocal.exit)
                classify == /\ ansLocal.exit = "ok"
                            /\ remote_url # ""
                            /\ ~id_is_empty(ansLocal.out)
                st == IF classify
                      THEN get_branch_display_status(name, ansLocal.out,
                               exitVerify, ansRemoteId, ansBase)
                      ELSE Classified("LocalOnly", "", << >>)
            IN  /\ log' = log \o <<q0>> \o
                      ClassifyEvents(name, st, exitVerify, ansRemoteId, ansBase)
                /\ IF ansLocal.exit # "ok" \/ st.err
                   THEN End("Err") /\ todo' = todo
                   ELSE /\ todo' = Tail(todo)
                        /\ IF todo' = << >> THEN End("ok")
                           ELSE Goto("branch_line")
    /\ UNCHANGED <<cmd, repo, fs, target, new_name, cur_b, resolved, remote_url,
                   something_done, runs, pure>>

(***************************************************************************)
(* handle_uncommitted_changes_before_action (the uncommitted-changes       *)
(* guard) of my-git-helper/src/utils.rs, invoked MaxGuardRuns times.       *)
(***************************************************************************)
GuardChoices == {<<"Save">>, <<"Create">>, <<"Reset">>, <<"Cancel">>, << >>}

\* the guard presenting its menu whatever the status says
guard_after_status_always_asks(exit) ==
    IF exit # "ok" THEN End("Err") ELSE Goto("guard_select")

\* my-git-helper utils.rs 314-317: a clean tree returns Ok(true) at once
guard_after_status(exit) ==
    IF exit # "ok" THEN End("Err")
    ELSE IF ~dirty THEN End("Ok(true)")
    ELSE Goto("guard_select")

\* my-git-helper utils.rs 314: git status --porcelain
GuardStatus ==
    /\ cmd = "guard" /\ pc = "start"
    /\ \E exit \in Exits :
        /\ Say(GitEv("status_porcelain_v1", << >>, << >>, exit))
        /\ guard_after_status(exit)
    /\ UNCHANGED <<cmd, repo, fs, wl, pure>>

\* the menu with no selection (Esc) taken as the Reset choice
GuardSelect_esc_is_reset ==
    /\ cmd = "guard" /\ pc = "guard_select"
    /\ \E choice \in GuardChoices :
        /\ Say(PromptEv("guard_select", choice))
        /\ CASE choice = <<"Save">> -> Goto("guard_message")
             [] choice = <<"Create">> -> Goto("guard_name")
             [] choice = <<"Reset">> -> Goto("guard_reset")
             [] choice = << >> -> Goto("guard_reset")
             [] OTHER -> End("Ok(false)")
    /\ UNCHANGED <<cmd, repo, fs, wl, pure>>

\* my-git-helper utils.rs 319-332, 360-363: the menu; Cancel is the default
GuardSelect ==
    /\ cmd = "guard" /\ pc = "guard_select"
    /\ \E choice \in GuardChoices :
        /\ Say(PromptEv("guard_select", choice))
        /\ CASE choice = <<"Save">> -> Goto("guard_message")
             [] choice = <<"Create">> -> Goto("guard_name")
             [] choice = <<"Reset">> -> Goto("guard_confirm_reset")
             [] OTHER -> End("Ok(false)")
    /\ UNCHANGED <<cmd, repo, fs, wl, pure>>

\* my-git-helper utils.rs 335
GuardPromptMessage ==
    /\ cmd = "guard" /\ pc = "guard_message"
    /\ \E input \in TypedInputs :
        prompt_non_empty_input("commit_message", input, "guard_add")
    /\ UNCHANGED <<cmd, repo, fs, target, cur_b, resolved, remote_url,
                   something_done, runs, todo, pure>>

\* git add . with its failure ignored: the commit follows
GuardAdd_ignoring_failure ==
    /\ cmd = "guard" /\ pc = "guard_add"
    /\ \E exit \in Exits :
        /\ Say(GitEv("add", << >>, << >>, exit))
        /\ Goto("guard_commit")
    /\ UNCHANGED <<cmd, repo, fs, wl, pure>>

\* my-git-helper utils.rs 336: git add .
GuardAdd ==
    /\ cmd = "guard" /\ pc = "guard_add"
    /\ \E exit \in Exits :
        /\ Say(GitEv("add", << >>, << >>, exit))
        /\ IF exit = "ok" THEN Goto("guard_commit") ELSE End("Err")
    /\ UNCHANGED <<cmd, repo, fs, wl, pure>>

\* my-git-helper utils.rs 337-339: git commit -m <msg>
GuardCommit ==
    /\ cmd = "guard" /\ pc = "guard_commit"
    /\ \E exit \in Exits :
        /\ Say(GitEv("commit", new_name, << >>, exit))
        /\ IF exit = "ok"
           THEN End("Ok(true)") /\ dirty' = FALSE
           ELSE End("Err") /\ dirty' = dirty
    /\ UNCHANGED <<cmd, locals, remotes, head, url, fs, wl, pure>>

\* my-git-helper utils.rs 343
GuardPromptName ==
    /\ cmd = "guard" /\ pc = "guard_name"
    /\ \E input \in TypedInputs :
        prompt_non_empty_input("new_branch_name", input, "ensure_not_exists")
    /\ UNCHANGED <<cmd, repo, fs, target, cur_b, resolved, remote_url,
                   something_done, runs, todo, pure>>

\* git branch <name> after which the guard returns Ok(true)
GuardCreateBranch_continues ==
    /\ cmd = "guard" /\ pc = "guard_create_branch"
    /\ \E exit \in Exits :
        /\ Say(GitEv("branch_create_local", new_name, << >>, exit))
        /\ IF exit = "ok"
           THEN End("Ok(true)") /\ locals' = locals \cup {new_name}
           ELSE End("Err") /\ locals' = locals
    /\ UNCHANGED <<cmd, remotes, head, dirty, url, fs, wl, pure>>

\* my-git-helper utils.rs 345-347: git branch <name>; the guard returns
\* Ok(false)
GuardCreateBranch ==
    /\ cmd = "guard" /\ pc = "guard_create_branch"
    /\ \E exit \in Exits :
        /\ Say(GitEv("branch_create_local", new_name, << >>, exit))
        /\ IF exit = "ok"
           THEN End("Ok(false)") /\ locals' = locals \cup {new_name}
           ELSE End("Err") /\ locals' = locals
    /\ UNCHANGED <<cmd, remotes, head, dirty, url, fs, wl, pure>>

\* the discard choice resetting whatever the second confirmation says
GuardConfirmReset_ignoring_answer ==
    /\ cmd = "guard" /\ pc = "guard_confirm_reset"
    /\ \E answer \in Confirms :
        /\ Say(PromptEv("confirm_reset", answer))
        /\ Goto("guard_reset")
    /\ UNCHANGED <<cmd, repo, fs, wl, pure>>

\* my-git-helper utils.rs 350-351, 355-358
GuardConfirmReset ==
    /\ cmd = "guard" /\ pc = "guard_confirm_reset"
    /\ \E answer \in Confirms :
        /\ Say(PromptEv("confirm_reset", answer))
        /\ IF answer = Yes THEN Goto("guard_reset") ELSE End("Ok(false)")
    /\ UNCHANGED <<cmd, repo, fs, wl, pure>>

\* my-git-helper utils.rs 352-354: git reset --hard HEAD
GuardReset ==
    /\ cmd = "guard" /\ pc = "guard_reset"
    /\ \E exit \in Exits :
        /\ Say(GitEv("reset_hard_head", << >>, << >>, exit))
        /\ IF exit = "ok"
           THEN End("Ok(true)") /\ dirty' = FALSE
           ELSE End("Err") /\ dirty' = dirty
    /\ UNCHANGED <<cmd, locals, remotes, head, url, fs, wl, pure>>

\* the guard is called again (by the next guarded workflow) after it returned
GuardAgain ==
    /\ cmd = "guard" /\ pc = "done" /\ IsOk(outcome)
    /\ runs + 1 < MaxGuardRuns
    /\ runs' = runs + 1
    /\ pc' = "start" /\ outcome' = "running"
    /\ UNCHANGED <<cmd, log, repo, fs, target, new_name, cur_b, resolved,
                   remote_url, something_done, todo, pure>>

(***************************************************************************)
(* prompt_and_execute_pull (the pull helper) of my-git-helper/src/utils.rs *)
(***************************************************************************)
\* my-git-helper utils.rs 370-371, 388: no url or a failed query: no pull
PullHelperGetUrl ==
    /\ cmd = "pull_helper" /\ pc = "start"
    /\ \E exit \in GetUrlExits :
        /\ Say(GitEv("remote_get_url", Origin, << >>, exit))
        /\ IF execute_git_command_internal(exit) = "Ok" /\ GetUrlOut # ""
           THEN Goto("pull_confirm")
           ELSE End("ok")
    /\ UNCHANGED <<cmd, repo, fs, wl, pure>>

\* my-git-helper utils.rs 372-373, 384-386
PullHelperConfirm ==
    /\ cmd = "pull_helper" /\ pc = "pull_confirm"
    /\ \E answer \in Confirms :
        /\ Say(PromptEv("confirm_pull", answer))
        /\ IF answer = Yes THEN Goto("pull_run") ELSE End("ok")
    /\ UNCHANGED <<cmd, repo, fs, wl, pure>>

\* my-git-helper utils.rs 375-383, 390: every result of the pull, an error
\* included, is only reported; the helper returns Ok
PullHelperPull ==
    /\ cmd = "pull_helper" /\ pc = "pull_run"
    /\ \E exit \in Exits :
        /\ Say(GitEv("pull", head, << >>, exit))
        /\ End("ok")
    /\ UNCHANGED <<cmd, repo, fs, wl, pure>>

(***************************************************************************)
(* git_switch                                                              *)
(***************************************************************************)
\* cmds.rs 181-187
SwitchSelect ==
    /\ cmd = "switch" /\ pc = "select"
    /\ prompt_fuzzy_select("switch_resolve")
    /\ UNCHANGED <<cmd, repo, fs, new_name, cur_b, resolved, remote_url,
                   something_done, runs, todo, pure>>

\* git_switch asking for confirmation whenever the remote-tracking ref
\* exists, also when the local branch does
switch_after_resolve_always_asks(r, target_input) ==
    IF r.remote_tracking_exists THEN "switch_confirm"
    ELSE IF r.local_exists /\ r.local_candidate_name = target_input
    THEN "switch_checkout"
    ELSE "not_found"

\* cmds.rs 191, 194, 206: the three cases of git_switch
switch_after_resolve(r, target_input) ==
    IF r.local_exists /\ r.local_candidate_name = target_input
    THEN "switch_checkout"
    ELSE IF r.remote_tracking_exists THEN "switch_confirm"
    ELSE "not_found"

\* cmds.rs 189: resolve_branch_input(&target_input), then 191-208
SwitchResolve ==
    /\ cmd = "switch" /\ pc = "switch_resolve"
    /\ \E exitLocal \in VerifyExits(local_candidate_name(target)),
          exitRemote \in VerifyExits(remote_tracking_candidate_name(target)) :
        LET r == resolve_branch_input(target, exitLocal, exitRemote)
            next == switch_after_resolve(r, target)
        IN  /\ log' = log \o ResolveEvents(r)
            /\ resolved' = r
            /\ IF r.err THEN End("Err")
               ELSE IF next = "not_found" THEN End("not_found")
               ELSE Goto(next)
    /\ UNCHANGED <<cmd, repo, fs, target, new_name, cur_b, remote_url,
                   something_done, runs, todo, pure>>

\* the offer to create the local branch, with a decline ending in error
SwitchConfirm_decline_is_error ==
    /\ cmd = "switch" /\ pc = "switch_confirm"
    /\ \E answer \in Confirms :
        /\ Say(PromptEv("confirm_switch_create", answer))
        /\ IF answer = Yes THEN Goto("switch_checkout") ELSE End("Err")
    /\ UNCHANGED <<cmd, repo, fs, wl, pure>>

\* cmds.rs 195-199, 203-205: the offer to create the local branch
SwitchConfirm ==
    /\ cmd = "switch" /\ pc = "switch_confirm"
    /\ \E answer \in Confirms :
        /\ Say(PromptEv("confirm_switch_create", answer))
        /\ IF answer = Yes THEN Goto("switch_checkout") ELSE End("ok")
    /\ UNCHANGED <<cmd, repo, fs, wl, pure>>

\* git checkout <name> succeeds only for a local branch or, creating the
\* local branch, for a name with a remote-tracking ref origin/<name>
CheckoutExits(n) ==
    IF n \in locals \/ n \in remotes THEN Exits ELSE {"nonzero", "spawn"}

\* cmds.rs 192, 200: git checkout <local candidate>
SwitchCheckout ==
    /\ cmd = "switch" /\ pc = "switch_checkout"
    /\ \E exit \in CheckoutExits(resolved.local_candidate_name) :
        /\ Say(GitEv("checkout", resolved.local_candidate_name, << >>, exit))
        /\ IF exit = "ok"
           THEN /\ End("ok")
                /\ head' = resolved.local_candidate_name
                /\ locals' = locals \cup {resolved.local_candidate_name}
           ELSE End("Err") /\ UNCHANGED <<head, locals>>
    /\ UNCHANGED <<cmd, remotes, dirty, url, fs, wl, pure>>

(***************************************************************************)
(* git_tree                                                                *)
(***************************************************************************)
\* cmds.rs 337-341: git show-branch --list --topo-order
TreeShow ==
    /\ cmd = "tree" /\ pc = "start"
    /\ \E exit \in Exits :
        /\ Say(GitEv("show_branch_tree", << >>, << >>, exit))
        /\ IF exit = "ok" THEN End("ok") ELSE End("Err")
    /\ UNCHANGED <<cmd, repo, fs, wl, pure>>

(***************************************************************************)
(* The repo subcommands: init, create, delete.                             *)
(***************************************************************************)
DotGit == <<".git">>
\* cmds.rs 415: the name of the working directory
repo_name == <<"n">>
\* the repository state after its .git directory is gone, or was created
NoRepository ==
    /\ locals' = {} /\ remotes' = {} /\ head' = << >> /\ url' = "none"
    /\ dirty' = dirty

\* cmds.rs 380: Path::new(".git").exists()
RepoInitExists ==
    /\ cmd = "repo_init" /\ pc = "start"
    /\ Say(FsEv("exists", DotGit, IF dotgit THEN "ok" ELSE "fail"))
    /\ IF dotgit THEN Goto("repo_init_confirm") ELSE Goto("repo_init_run")
    /\ UNCHANGED <<cmd, repo, fs, wl, pure>>

\* cmds.rs 381-384: re-initialization needs a confirmation
RepoInitConfirm ==
    /\ cmd = "repo_init" /\ pc = "repo_init_confirm"
    /\ \E answer \in Confirms :
        /\ Say(PromptEv("confirm_reinit", answer))
        /\ IF answer = Yes THEN Goto("repo_init_run") ELSE End("ok")
    /\ UNCHANGED <<cmd, repo, fs, wl, pure>>

\* cmds.rs 386-388: git init
RepoInitRun ==
    /\ cmd = "repo_init" /\ pc = "repo_init_run"
    /\ \E exit \in Exits :
        /\ Say(GitEv("init", << >>, << >>, exit))
        /\ IF exit = "ok" THEN End("ok") /\ dotgit' = TRUE
           ELSE End("Err") /\ dotgit' = dotgit
    /\ UNCHANGED <<cmd, repo, cwd, newdir, wl, pure>>

\* cmds.rs 392-394: the target path must not exist
RepoCreateExists ==
    /\ cmd = "repo_create" /\ pc = "start"
    /\ Say(FsEv("exists", new_name, IF newdir # "absent" THEN "ok" ELSE "fail"))
    /\ IF newdir # "absent" THEN End("dir_exists") ELSE Goto("repo_create_mkdir")
    /\ UNCHANGED <<cmd, repo, fs, wl, pure>>

\* cmds.rs 395: std::fs::create_dir_all(&name)
RepoCreateMkdir ==
    /\ cmd = "repo_create" /\ pc = "repo_create_mkdir"
    /\ \E res \in FsResults :
        /\ Say(FsEv("create_dir_all", new_name, res))
        /\ IF res = "ok" THEN Goto("repo_create_chdir") /\ newdir' = "dir"
           ELSE End("Err") /\ newdir' = newdir
    /\ UNCHANGED <<cmd, repo, dotgit, cwd, wl, pure>>

\* cmds.rs 396-397: current_dir(), then set_current_dir(&name)
RepoCreateChdir ==
    /\ cmd = "repo_create" /\ pc = "repo_create_chdir"
    /\ \E res1 \in FsResults, res2 \in FsResults :
        IF res1 = "fail"
        THEN /\ Say(FsEv("current_dir", << >>, res1))
             /\ End("Err") /\ cwd' = cwd
        ELSE /\ log' = log \o <<FsEv("current_dir", << >>, res1),
                                FsEv("set_current_dir", new_name, res2)>>
             /\ IF res2 = "ok" THEN Goto("repo_create_init") /\ cwd' = "new"
                ELSE End("Err") /\ cwd' = cwd
    /\ UNCHANGED <<cmd, repo, dotgit, newdir, wl, pure>>

\* cmds.rs 399: git init in the new directory; the result is kept
RepoCreateInit ==
    /\ cmd = "repo_create" /\ pc = "repo_create_init"
    /\ \E exit \in Exits :
        /\ Say(GitEv("init", << >>, << >>, exit))
        /\ Goto("repo_create_return")
        /\ newdir' = IF exit = "ok" THEN "repo" ELSE newdir
    /\ UNCHANGED <<cmd, repo, dotgit, cwd, wl, pure>>

\* cmds.rs 399, 403: the kept result of git init (the last command issued)
init_result == log[Len(log)].r

\* the result of init checked before the way back: a failed init returns
\* from inside the new directory
RepoCreateReturn_init_checked_first ==
    /\ cmd = "repo_create" /\ pc = "repo_create_return"
    /\ IF init_result # "ok"
       THEN End("Err") /\ cwd' = cwd /\ log' = log
       ELSE \E res \in FsResults :
            /\ Say(FsEv("set_current_dir", <<"original_dir">>, res))
            /\ IF res = "fail" THEN End("Err") /\ cwd' = cwd
               ELSE End("ok") /\ cwd' = "orig"
    /\ UNCHANGED <<cmd, repo, dotgit, newdir, wl, pure>>

\* cmds.rs 401-405: back to the original directory, then the result of init
RepoCreateReturn ==
    /\ cmd = "repo_create" /\ pc = "repo_create_return"
    /\ \E res \in FsResults :
        /\ Say(FsEv("set_current_dir", <<"original_dir">>, res))
        /\ IF res = "fail" THEN End("Err") /\ cwd' = cwd
           ELSE /\ cwd' = "orig"
                /\ IF init_result = "ok" THEN End("ok") ELSE End("Err")
    /\ UNCHANGED <<cmd, repo, dotgit, newdir, wl, pure>>

\* cmds.rs 409-415: without .git the deletion is refused; current_dir()
RepoDeleteExists ==
    /\ cmd = "repo_delete" /\ pc = "start"
    /\ IF ~dotgit
       THEN /\ Say(FsEv("exists", DotGit, "fail"))
            /\ End("not_a_repository")
       ELSE \E res \in FsResults :
            /\ log' = log \o <<FsEv("exists", DotGit, "ok"),
                               FsEv("current_dir", << >>, res)>>
            /\ IF res = "ok" THEN Goto("repo_delete_confirm") ELSE End("Err")
    /\ UNCHANGED <<cmd, repo, fs, wl, pure>>

\* cmds.rs 416-420: the first confirmation
RepoDeleteConfirm ==
    /\ cmd = "repo_delete" /\ pc = "repo_delete_confirm"
    /\ \E answer \in Confirms :
        /\ Say(PromptEv("confirm_repo_delete", answer))
        /\ IF answer = Yes THEN Goto("repo_delete_typed") ELSE End("ok")
    /\ UNCHANGED <<cmd, repo, fs, wl, pure>>

\* the typed confirmation accepted whatever was typed
typed_confirmation_matches_any(typed_confirmation) == TRUE

\* cmds.rs 423: typed_confirmation != repo_name
typed_confirmation_matches(typed_confirmation) ==
    typed_confirmation = repo_name

\* cmds.rs 421-426: the second, typed confirmation (prompt_input: any text)
RepoDeleteTyped ==
    /\ cmd = "repo_delete" /\ pc = "repo_delete_typed"
    /\ \E typed_confirmation \in TypedInputs :
        /\ Say(PromptEv("typed_confirmation", typed_confirmation))
        /\ new_name' = typed_confirmation
        /\ IF typed_confirmation_matches(typed_confirmation)
           THEN Goto("repo_delete_remove") ELSE End("ok")
    /\ UNCHANGED <<cmd, repo, fs, target, cur_b, resolved, remote_url,
                   something_done, runs, todo, pure>>

\* cmds.rs 428-430: std::fs::remove_dir_all(".git"); a failed removal may
\* have removed a part of the directory
RepoDeleteRemove ==
    /\ cmd = "repo_delete" /\ pc = "repo_delete_remove"
    /\ \E res \in FsResults :
        /\ Say(FsEv("remove_dir_all", DotGit, res))
        /\ IF res = "ok"
           THEN End("ok") /\ dotgit' = FALSE /\ NoRepository
           ELSE /\ End("Err") /\ dotgit' = TRUE
                /\ \/ UNCHANGED repo
                   \/ NoRepository
    /\ UNCHANGED <<cmd, cwd, newdir, wl, pure>>

(***************************************************************************)
(* The menus of repo and repo remote, and the remote subcommands.          *)
(***************************************************************************)
\* cmds.rs 350-375: `repo` without a subcommand asks which one
RepoMenuSelect ==
    /\ cmd = "repo" /\ pc = "start"
    /\ \E choice \in {"init", "create", "delete", "remote", "none"} :
        /\ Say(PromptEv("select_repo_op", <<choice>>))
        /\ IF choice = "none" THEN End("ok") /\ cmd' = cmd
           ELSE /\ outcome' = outcome
                /\ cmd' = IF choice = "remote" THEN "remote" ELSE "repo_" \o choice
                /\ pc' = IF choice = "create" THEN "repo_create_name" ELSE "start"
    /\ UNCHANGED <<repo, fs, wl, pure>>

\* cmds.rs 364: the name of the repository to create
RepoCreatePromptName ==
    /\ cmd = "repo_create" /\ pc = "repo_create_name"
    /\ \E input \in TypedInputs :
        prompt_non_empty_input("repo_name_input", input, "start")
    /\ UNCHANGED <<cmd, repo, fs, target, cur_b, resolved, remote_url,
                   something_done, runs, todo, pure>>

\* cmds.rs 436-464: `repo remote` without a subcommand asks which one
RemoteMenuSelect ==
    /\ cmd = "remote" /\ pc = "start"
    /\ \E choice \in {"add", "set_url", "remove", "show", "none"} :
        /\ Say(PromptEv("select_remote_op", <<choice>>))
        /\ IF choice = "none" THEN End("ok") /\ cmd' = cmd
           ELSE /\ outcome' = outcome
                /\ cmd' = "remote_" \o choice
                /\ pc' = IF choice \in {"add", "set_url"}
                         THEN "remote_url_prompt" ELSE "start"
    /\ UNCHANGED <<repo, fs, wl, pure>>

\* cmds.rs 447, 451: the url typed in the menu
RemoteUrlPrompt ==
    /\ cmd \in {"remote_add", "remote_set_url"} /\ pc = "remote_url_prompt"
    /\ \E input \in TypedInputs :
        prompt_non_empty_input("remote_url_input", input, "start")
    /\ UNCHANGED <<cmd, repo, fs, target, cur_b, resolved, remote_url,
                   something_done, runs, todo, pure>>

\* the url that origin has after git was given the text u as its url
UrlOf(u) == IF is_empty(u) THEN "empty" ELSE "set"
\* git remote add fails when origin exists; set-url and remove when it does not
RemoteAddExits == IF url = "none" THEN Exits ELSE {"nonzero", "spawn"}
RemoteChangeExits == IF url # "none" THEN Exits ELSE {"nonzero", "spawn"}

\* cmds.rs 476-481: an existing origin with a non-empty url is an error
RemoteAddGetUrl ==
    /\ cmd = "remote_add" /\ pc = "start"
    /\ \E exit \in GetUrlExits :
        /\ Say(GitEv("remote_get_url", Origin, << >>, exit))
        /\ IF exit = "ok" /\ GetUrlOut # ""
           THEN End("remote_exists") ELSE Goto("remote_add_run")
    /\ UNCHANGED <<cmd, repo, fs, wl, pure>>

\* cmds.rs 482-484: git remote add origin <url>
RemoteAddRun ==
    /\ cmd = "remote_add" /\ pc = "remote_add_run"
    /\ \E exit \in RemoteAddExits :
        /\ Say(GitEv("remote_add", Origin, new_name, exit))
        /\ IF exit = "ok" THEN End("ok") /\ url' = UrlOf(new_name)
           ELSE End("Err") /\ url' = url
    /\ UNCHANGED <<cmd, locals, remotes, head, dirty, fs, wl, pure>>

\* set-url issued whatever the get-url query answered
RemoteSetUrlGetUrl_unchecked ==
    /\ cmd = "remote_set_url" /\ pc = "start"
    /\ \E exit \in GetUrlExits :
        /\ Say(GitEv("remote_get_url", Origin, << >>, exit))
        /\ Goto("remote_set_url_run")
    /\ UNCHANGED <<cmd, repo, fs, wl, pure>>

\* cmds.rs 489, 494-496: set-url needs an origin that answers get-url
RemoteSetUrlGetUrl ==
    /\ cmd = "remote_set_url" /\ pc = "start"
    /\ \E exit \in GetUrlExits :
        /\ Say(GitEv("remote_get_url", Origin, << >>, exit))
        /\ IF exit = "ok" THEN Goto("remote_set_url_run")
           ELSE End("remote_missing")
    /\ UNCHANGED <<cmd, repo, fs, wl, pure>>

\* cmds.rs 491-492: git remote set-url origin <url>
RemoteSetUrlRun ==
    /\ cmd = "remote_set_url" /\ pc = "remote_set_url_run"
    /\ \E exit \in RemoteChangeExits :
        /\ Say(GitEv("remote_set_url", Origin, new_name, exit))
        /\ IF exit = "ok" THEN End("ok") /\ url' = UrlOf(new_name)
           ELSE End("Err") /\ url' = url
    /\ UNCHANGED <<cmd, locals, remotes, head, dirty, fs, wl, pure>>

\* cmds.rs 502-503, 511-515: nothing to remove is not an error
RemoteRemoveGetUrl ==
    /\ cmd = "remote_remove" /\ pc = "start"
    /\ \E exit \in GetUrlExits :
        /\ Say(GitEv("remote_get_url", Origin, << >>, exit))
        /\ IF exit = "ok" /\ GetUrlOut # ""
           THEN Goto("remote_remove_confirm") ELSE End("ok")
    /\ UNCHANGED <<cmd, repo, fs, wl, pure>>

\* the remote removed by the orchestrator itself, without git remote remove
RemoteRemoveConfirm_editing_config ==
    /\ cmd = "remote_remove" /\ pc = "remote_remove_confirm"
    /\ \E answer \in Confirms :
        /\ Say(PromptEv("confirm_remote_remove", answer))
        /\ End("ok")
        /\ IF answer = Yes THEN url' = "none" /\ remotes' = {}
           ELSE UNCHANGED <<url, remotes>>
    /\ UNCHANGED <<cmd, locals, head, dirty, fs, wl, pure>>

\* cmds.rs 504, 507-509
RemoteRemoveConfirm ==
    /\ cmd = "remote_remove" /\ pc = "remote_remove_confirm"
    /\ \E answer \in Confirms :
        /\ Say(PromptEv("confirm_remote_remove", answer))
        /\ IF answer = Yes THEN Goto("remote_remove_run") ELSE End("ok")
    /\ UNCHANGED <<cmd, repo, fs, wl, pure>>

\* cmds.rs 505-506: git remote remove origin (its remote-tracking refs go too)
RemoteRemoveRun ==
    /\ cmd = "remote_remove" /\ pc = "remote_remove_run"
    /\ \E exit \in RemoteChangeExits :
        /\ Say(GitEv("remote_remove", Origin, << >>, exit))
        /\ IF exit = "ok"
           THEN End("ok") /\ url' = "none" /\ remotes' = {}
           ELSE End("Err") /\ UNCHANGED <<url, remotes>>
    /\ UNCHANGED <<cmd, locals, head, dirty, fs, wl, pure>>

\* cmds.rs 518-528: the url is shown, or that there is none
RemoteShow ==
    /\ cmd = "remote_show" /\ pc = "start"
    /\ \E exit \in GetUrlExits :
        /\ Say(GitEv("remote_get_url", Origin, << >>, exit))
        /\ End("ok")
    /\ UNCHANGED <<cmd, repo, fs, wl, pure>>

(***************************************************************************)
(* SpecRunner: one call of the Command Runner, for every command of        *)
(* GitCommand and every way the external process can end.                  *)
(***************************************************************************)
RunnerOps == ExitCodeOnlyOps \cup CapturedOps \cup InteractiveOps

InitRunner ==
    /\ cmd = "command_runner" /\ pc = "call"
    /\ outcome = "running" /\ log = << >>
    /\ IdleRepo /\ IdleFs /\ IdleLocals
    /\ arg \in [op : RunnerOps, exit : Exits]
    /\ ret = NoRet

CallRunner ==
    /\ cmd = "command_runner" /\ pc = "call"
    /\ ret' = [value |-> RunnerResult(arg.op, arg.exit)]
    /\ Say(GitEv(arg.op, << >>, << >>, arg.exit))
    /\ End("ok")
    /\ UNCHANGED <<cmd, repo, fs, wl, arg>>

NextRunner == CallRunner

SpecRunner == InitRunner /\ [][NextRunner]_vars

(***************************************************************************)
(* SpecOptions: get_branch_select_options_for_fuzzy as a function of what  *)
(* git branch and git branch --all print, for every small repository.      *)
(* A line is a sequence of tokens; "  " is its indentation, "* " the mark  *)
(* of the current branch.                                                  *)
(***************************************************************************)
Mark == <<"* ">>
Pad == <<"  ">>
RemotesOrigin == <<"remotes/origin/">>
HeadPointerTo == <<"HEAD -> ">>
LocalSuffix == <<" (local)">>
OriginSuffix == <<" (origin)">>

\* the branch names of the listed repositories, in the order git lists them
\* (a->b is a valid branch name)
OptionLocalNames == {<<"a">>, <<"a", "->", "b">>, <<"b">>, <<"origin/", "a">>}
OptionRemoteNames == {<<"a">>, <<"b">>}
RefOrder == << <<"a">>, <<"a", "->", "b">>, <<"b">>, <<"origin/", "a">> >>

NamesInOrder(names) ==
    LET Listed(n) == n \in names
    IN  SelectSeq(RefOrder, Listed)

\* main.rs 76: the output of git branch --no-color
branch_list_local_str(ls, current) ==
    LET sel == NamesInOrder(ls)
    IN  (IF current = << >> THEN << Mark \o DetachedLine >> ELSE << >>) \o
        [i \in 1 .. Len(sel) |->
            (IF sel[i] = current THEN Mark ELSE Pad) \o sel[i]]

\* main.rs 75: the output of git branch --all --no-color; head_pointer says
\* whether refs/remotes/origin/HEAD exists (it points to origin/a)
branch_list_all_str(ls, current, rs, head_pointer) ==
    LET sel == NamesInOrder(rs)
    IN  branch_list_local_str(ls, current) \o
        (IF head_pointer
         THEN << Pad \o RemotesOrigin \o HeadPointerTo \o OriginPrefix \o <<"a">> >>
         ELSE << >>) \o
        [i \in 1 .. Len(sel) |-> Pad \o RemotesOrigin \o sel[i]]

\* str::trim: the indentation taken off both ends
RECURSIVE trim(_)
trim(s) ==
    IF s = << >> THEN s
    ELSE IF <<Head(s)>> = Pad THEN trim(Tail(s))
    ELSE IF <<s[Len(s)]>> = Pad THEN trim(SubSeq(s, 1, Len(s) - 1))
    ELSE s

\* utils.rs 94, 110: line.trim_start_matches("* ").trim()
line_value(line) == trim(trim_start_matches(line, Mark))

\* str::contains("->") and str::contains("HEAD ->") on token sequences
contains_arrow(s) == \E i \in 1 .. Len(s) : s[i] \in {"->", "HEAD -> "}
contains_head_arrow(s) == \E i \in 1 .. Len(s) : s[i] = "HEAD -> "

\* HashSet::insert of processed_values: TRUE when v was not yet a value
processed_values_insert(options, v) ==
    \A i \in 1 .. Len(options) : options[i].value # v

\* utils.rs 93-103: the loop over the lines of git branch
RECURSIVE local_options(_, _)
local_options(lines, options) ==
    IF lines = << >> THEN options
    ELSE LET branch_name == line_value(Head(lines))
         IN  local_options(Tail(lines),
                 IF /\ ~is_empty(branch_name) /\ ~contains_arrow(branch_name)
                    /\ processed_values_insert(options, branch_name)
                 THEN Append(options, [display |-> branch_name \o LocalSuffix,
                                       value |-> branch_name])
                 ELSE options)

\* utils.rs 109-132: the loop over the lines of git branch --all
RECURSIVE remote_options(_, _)
remote_options(lines, options) ==
    IF lines = << >> THEN options
    ELSE LET trimmed_line == line_value(Head(lines))
             remote_name_part == strip_prefix_once(trimmed_line, RemotesOrigin)
             value_for_remote == OriginPrefix \o remote_name_part
         IN  remote_options(Tail(lines),
                 IF /\ starts_with(trimmed_line, RemotesOrigin)
                    /\ ~contains_head_arrow(remote_name_part)
                    /\ processed_values_insert(options, value_for_remote)
                 THEN Append(options, [display |-> remote_name_part \o OriginSuffix,
                                       value |-> value_for_remote])
                 ELSE options)

\* the byte order of the tokens that occur in display labels
TokenOrder == <<" (local)", " (origin)", "(HEAD detached)", "->", "a", "b",
                "origin/">>
TokenRank(t) == CHOOSE i \in 1 .. Len(TokenOrder) : TokenOrder[i] = t

\* String::cmp(a, b) is not Greater
RECURSIVE cmp_le(_, _)
cmp_le(a, b) ==
    IF a = << >> THEN TRUE
    ELSE IF b = << >> THEN FALSE
    ELSE IF Head(a) = Head(b) THEN cmp_le(Tail(a), Tail(b))
    ELSE TokenRank(Head(a)) < TokenRank(Head(b))

\* utils.rs 134: options.sort_by(|a, b| a.display.cmp(&b.display)), a stable
\* sort: each option is placed after the options that are not greater
RECURSIVE sort_by_display(_)
sort_by_display(options) ==
    IF options = << >> THEN << >>
    ELSE LET sorted == sort_by_display(SubSeq(options, 1, Len(options) - 1))
             x == options[Len(options)]
             NotGreater(o) == cmp_le(o.display, x.display)
             Greater(o) == ~cmp_le(o.display, x.display)
         IN  SelectSeq(sorted, NotGreater) \o <<x>> \o SelectSeq(sorted, Greater)

\* utils.rs 87-136: the options, in the order they are presented
branch_select_options(local_branch_str, all_branch_str) ==
    sort_by_display(remote_options(all_branch_str,
                        local_options(local_branch_str, << >>)))

OptionsArgs ==
    {a \in [locals : SUBSET OptionLocalNames, remotes : SUBSET OptionRemoteNames,
            current : OptionLocalNames \cup {<< >>}, head_pointer : BOOLEAN] :
        /\ a.current = << >> \/ a.current \in a.locals
        /\ a.head_pointer => <<"a">> \in a.remotes}

InitOptions ==
    /\ cmd = "get_branch_select_options_for_fuzzy" /\ pc = "call"
    /\ outcome = "running" /\ log = << >>
    /\ IdleRepo /\ IdleFs /\ IdleLocals
    /\ arg \in OptionsArgs
    /\ ret = NoRet

CallOptions ==
    /\ cmd = "get_branch_select_options_for_fuzzy" /\ pc = "call"
    /\ ret' = [options |->
                  branch_select_options(
                      branch_list_local_str(arg.locals, arg.current),
                      branch_list_all_str(arg.locals, arg.current, arg.remotes,
                                          arg.head_pointer))]
    /\ pc' = "returned" /\ outcome' = "ok"
    /\ UNCHANGED <<cmd, log, repo, fs, wl, arg>>

NextOptions == CallOptions

SpecOptions == InitOptions /\ [][NextOptions]_vars

(***************************************************************************)
(* Spec: every workflow, started in every repository state.                *)
(***************************************************************************)
Commands == {"create", "copy", "delete", "merge", "save", "branch", "guard",
             "pull_helper", "switch", "tree"}
\* main.rs 199, cmds.rs 344-349, 467-472: the repo subcommands
RepoCommands == {"repo", "repo_init", "repo_create", "repo_delete", "remote",
                 "remote_add", "remote_set_url", "remote_remove", "remote_show"}
\* the subcommands that take an argument (a name, a url) on the command line
CliArgs(c) ==
    IF c \in {"repo_create", "remote_add", "remote_set_url"}
    THEN {<< >>, <<"n">>} ELSE {<< >>}

\* git_copy and git_delete (cmds.rs 254, 276) begin with the listing of
\* get_branch_select_options_for_fuzzy
StartPc(c) ==
    IF c \in {"copy", "delete", "switch"} THEN "list_local" ELSE "start"

Init ==
    /\ cmd \in Commands \cup RepoCommands /\ pc = StartPc(cmd)
    /\ outcome = "running" /\ log = << >>
    /\ dotgit \in (IF cmd \in {"repo", "repo_init", "repo_delete"}
                   THEN BOOLEAN ELSE {TRUE})
    /\ IF dotgit
       THEN /\ locals \in SUBSET BranchNames
            /\ remotes \in SUBSET BranchNames
            /\ head \in locals \cup {<< >>}
            /\ dirty \in BOOLEAN
            /\ url \in {"none", "empty", "set"}
       ELSE IdleRepo
    /\ cwd = "orig"
    /\ newdir \in (IF cmd \in {"repo", "repo_create"}
                   THEN {"absent", "dir"} ELSE {"absent"})
    /\ target = << >> /\ new_name \in CliArgs(cmd) /\ cur_b = << >>
    /\ resolved = NoResolved /\ remote_url = ""
    /\ something_done = FALSE /\ runs = 0 /\ todo = << >>
    /\ arg = NoArg /\ ret = NoRet

Next ==
    \/ EnsureBranchNotExists
    \/ CreatePromptName
    \/ CreateBranch
    \/ PushOptionalGetUrl
    \/ PushOptionalConfirm
    \/ PushOptionalCheckout
    \/ PushOptionalPush
    \/ ListLocal
    \/ ListAll
    \/ CopySelect
    \/ CopyPromptName
    \/ CopyBranch
    \/ DeleteSelect
    \/ DeleteResolve
    \/ DeleteCurrentBranch
    \/ DeleteGetUrl
    \/ DeleteConfirmLocal
    \/ DeleteLocal
    \/ DeleteConfirmRemote
    \/ DeleteRemote
    \/ ConflictConfirm
    \/ ConflictPromptName
    \/ ConflictCheckoutB
    \/ MergeCurrentBranch
    \/ MergeSelect
    \/ MergeEnsureExists
    \/ MergeRun
    \/ MergeConfirmDelete
    \/ MergeDelete
    \/ SaveAdd
    \/ SavePromptMessage
    \/ SaveCommit
    \/ SaveCurrentBranch
    \/ SaveGetUrl
    \/ SaveConfirmPush
    \/ SavePush
    \/ SaveConfirmPull
    \/ SavePull
    \/ BranchGetUrl
    \/ BranchFetchPrune
    \/ BranchListAll
    \/ BranchStatus
    \/ BranchDisplayInfo
    \/ GuardStatus
    \/ GuardSelect
    \/ GuardPromptMessage
    \/ GuardAdd
    \/ GuardCommit
    \/ GuardPromptName
    \/ GuardCreateBranch
    \/ GuardConfirmReset
    \/ GuardReset
    \/ GuardAgain
    \/ PullHelperGetUrl
    \/ PullHelperConfirm
    \/ PullHelperPull
    \/ SwitchSelect
    \/ SwitchResolve
    \/ SwitchConfirm
    \/ SwitchCheckout
    \/ TreeShow
    \/ RepoInitExists
    \/ RepoInitConfirm
    \/ RepoInitRun
    \/ RepoCreateExists
    \/ RepoCreateMkdir
    \/ RepoCreateChdir
    \/ RepoCreateInit
    \/ RepoCreateReturn
    \/ RepoDeleteExists
    \/ RepoDeleteConfirm
    \/ RepoDeleteTyped
    \/ RepoDeleteRemove
    \/ RepoMenuSelect
    \/ RepoCreatePromptName
    \/ RemoteMenuSelect
    \/ RemoteUrlPrompt
    \/ RemoteAddGetUrl
    \/ RemoteAddRun
    \/ RemoteSetUrlGetUrl
    \/ RemoteSetUrlRun
    \/ RemoteRemoveGetUrl
    \/ RemoteRemoveConfirm
    \/ RemoteRemoveRun
    \/ RemoteShow

Spec == Init /\ [][Next]_vars

\* Spec with every prompt answered and every external command returning:
\* a step that can be taken is eventually taken
SpecTerminating == Spec /\ WF_vars(Next)

(***************************************************************************)
(* Claims.                                                                 *)
(***************************************************************************)

\* C1: for every input s, if s = "origin/" + X the remote candidate is s
\* verbatim and the local candidate is X (also when X itself starts with
\* "origin/"); otherwise the local candidate is s and the remote candidate
\* is "origin/" + s.
C1_CandidatesDerived ==
    (cmd = "resolve_branch_input" /\ pc = "returned" /\ ~ret.err) =>
        IF starts_with(arg.name, OriginPrefix)
        THEN /\ ret.remote_tracking_candidate_name = arg.name
             /\ ret.local_candidate_name = strip_prefix_once(arg.name, OriginPrefix)
        ELSE /\ ret.local_candidate_name = arg.name
             /\ ret.remote_tracking_candidate_name = OriginPrefix \o arg.name

\* C2: whenever the existence probe answers yes or no and the remote commit
\* id is read, the classifier returns no error but exactly one of the five
\* statuses, whatever the common-ancestor query does, and Synced exactly
\* when the remote ref exists and the two commit ids are equal.
C2_ClassifyTotal ==
    (/\ cmd = "get_branch_display_status" /\ pc = "returned"
     /\ arg.exitVerify # "spawn"
     /\ (arg.exitVerify = "ok" => arg.ansRemoteId.exit = "ok")) =>
        /\ ~ret.err
        /\ ret.status \in Statuses
        /\ (ret.status = "Synced" <=>
                (arg.exitVerify = "ok" /\ arg.local_id = arg.ansRemoteId.out))

\* the case of C3: the remote ref exists, its id is read and is not empty,
\* and the common-ancestor query succeeds
C3_Case ==
    /\ cmd = "get_branch_display_status" /\ pc = "returned"
    /\ arg.exitVerify = "ok"
    /\ arg.ansRemoteId.exit = "ok" /\ ~id_is_empty(arg.ansRemoteId.out)
    /\ arg.ansBase.exit = "ok"

\* C3: in that case Ahead iff ancestor = remote and remote # local; Behind
\* iff ancestor = local, local # remote and ancestor # remote; Diverged iff
\* local # remote and the ancestor is neither of them.
C3_AheadBehindDiverged ==
    C3_Case =>
        LET l == arg.local_id
            r == arg.ansRemoteId.out
            b == arg.ansBase.out
        IN  /\ ~ret.err
            /\ (ret.status = "Ahead" <=> (b = r /\ r # l))
            /\ (ret.status = "Behind" <=> (b = l /\ l # r /\ b # r))
            /\ (ret.status = "Diverged" <=> (l # r /\ b # l /\ b # r))

C3_Witness ==
    /\ C3_Case
    /\ arg.local_id # arg.ansRemoteId.out
    /\ arg.ansBase.out = arg.local_id
    /\ ret.status = "Behind"

\* C4: when the remote ref exists, the two commit ids differ and the
\* common-ancestor query fails, the classifier returns (LocalOnly, "") and
\* no error.
C4_AncestorFailureDegrades ==
    (/\ cmd = "get_branch_display_status" /\ pc = "returned"
     /\ arg.exitVerify = "ok"
     /\ arg.ansRemoteId.exit = "ok" /\ ~id_is_empty(arg.ansRemoteId.out)
     /\ arg.local_id # arg.ansRemoteId.out
     /\ arg.ansBase.exit # "ok") =>
        /\ ~ret.err
        /\ ret.status = "LocalOnly"
        /\ ret.note = ""

\* the case of C5: the remote ref does not exist, or exists with an empty id
C5_Case ==
    /\ cmd = "get_branch_display_status" /\ pc = "returned"
    /\ \/ arg.exitVerify = "nonzero"
       \/ /\ arg.exitVerify = "ok"
          /\ arg.ansRemoteId.exit = "ok" /\ id_is_empty(arg.ansRemoteId.out)

\* C5: in that case the classifier returns (LocalOnly, "") for every local
\* commit id and never issues the common-ancestor query.
C5_NoRemoteIsLocalOnly ==
    C5_Case =>
        /\ ~ret.err
        /\ ret.status = "LocalOnly"
        /\ ret.note = ""
        /\ \A i \in 1 .. Len(ret.queries) : ret.queries[i] # "merge_base"

C5_Witness ==
    /\ C5_Case
    /\ arg.exitVerify = "ok"
    /\ arg.ansBase.exit = "ok"
    /\ ret.status = "LocalOnly"

(***************************************************************************)
(* Claims about the workflows (checked under Spec).                        *)
(***************************************************************************)
LogIdx == 1 .. Len(log)
IsGit(e, op) == e.k = "git" /\ e.op = op
IsPrompt(e, op) == e.k = "prompt" /\ e.op = op
LastIs(i) == i = Len(log)
\* the side-effect commands issued so far
SideEffectsIssued ==
    {log[i].op : i \in {j \in LogIdx : log[j].k = "git" /\ log[j].op \in SideEffectOps}}

DeletionOps == {"branch_delete_local_d", "push_delete",
                "confirm_local_delete", "confirm_remote_delete"}

\* C6: in the delete workflow, branch -d is never issued for the checked-out
\* branch; and when the selection resolves to an existing local branch that
\* is the current branch, the run ends with an error and no deletion command
\* or deletion prompt has occurred.
C6_DeleteNeverCurrent ==
    cmd = "delete" =>
        /\ \A i \in LogIdx :
              IsGit(log[i], "branch_delete_local_d") => log[i].a # head
        /\ (resolved.local_exists /\ resolved.local_candidate_name = head) =>
              /\ \A i \in LogIdx : log[i].op \notin DeletionOps
              /\ pc \in {"delete_current", "delete_get_url", "done"}
              /\ pc = "done" => IsErr(outcome)

C6_Witness ==
    /\ cmd = "delete" /\ pc = "done"
    /\ resolved.local_exists /\ resolved.local_candidate_name = head
    /\ outcome = "cannot_delete_current"

\* the working tree has been clean since the guard was first called
CleanAllAlong ==
    /\ ~dirty
    /\ \A i \in LogIdx : log[i].op \notin {"commit", "reset_hard_head"}

\* C7: with a clean working tree every call of the guard issues the status
\* query and nothing else, presents no prompt, and returns continue
\* (Ok(true)) when the query succeeds; a second call behaves the same.
C7_CleanGuardContinues ==
    (cmd = "guard" /\ CleanAllAlong) =>
        /\ \A i \in LogIdx : IsGit(log[i], "status_porcelain_v1")
        /\ pc \in {"start", "done"}
        /\ Len(log) = runs + (IF pc = "done" THEN 1 ELSE 0)
        /\ (pc = "done" /\ log[Len(log)].r = "ok") => outcome = "Ok(true)"

C7_Witness ==
    /\ cmd = "guard" /\ CleanAllAlong
    /\ runs = 1 /\ pc = "done" /\ outcome = "Ok(true)"
    /\ Len(log) = 2

\* the position of the existence check that found the name typed in
\* conflict recovery to be unused, after the offer was accepted
ConflictNameUnusedAt(j) ==
    /\ j \in LogIdx /\ j > 2
    /\ log[j - 2] = PromptEv("confirm_new_branch", Yes)
    /\ IsPrompt(log[j - 1], "new_branch_name") /\ log[j - 1].a # << >>
    /\ log[j] = GitEv("rev_parse_verify", log[j - 1].a, << >>, "nonzero")

\* C8, first two parts: a merge that exits non-zero is followed by the offer
\* of conflict recovery; declining it ends the run with an error and no
\* branch-creating command.
C8_EnteredAndDeclined ==
    /\ \A i \in LogIdx :
          (IsGit(log[i], "merge") /\ log[i].r = "nonzero") =>
              IF LastIs(i) THEN pc = "conflict_confirm"
              ELSE IsPrompt(log[i + 1], "confirm_new_branch")
    /\ \A i \in LogIdx :
          log[i] = PromptEv("confirm_new_branch", No) =>
              /\ LastIs(i) /\ pc = "done" /\ IsErr(outcome)
              /\ \A k \in LogIdx : log[k].op \notin
                    {"checkout_b", "branch_create_local", "branch_create_local_from"}

\* C8 as stated: ... and when the offer is accepted and the name is
\* non-empty and unused, exactly one checkout -b is issued and the run ends
\* successfully.
C8_Original ==
    cmd = "merge" =>
        /\ C8_EnteredAndDeclined
        /\ \A j \in LogIdx :
              ConflictNameUnusedAt(j) =>
                  IF LastIs(j) THEN pc = "conflict_checkout_b"
                  ELSE /\ LastIs(j + 1)
                       /\ IsGit(log[j + 1], "checkout_b")
                       /\ log[j + 1].a = log[j - 1].a
                       /\ pc = "done" /\ outcome = "ok"

\* C8 amended: ... exactly one checkout -b is issued, and the run ends
\* successfully when that command succeeds and with an error when it fails.
C8_ConflictRecovery ==
    cmd = "merge" =>
        /\ C8_EnteredAndDeclined
        /\ \A j \in LogIdx :
              ConflictNameUnusedAt(j) =>
                  IF LastIs(j) THEN pc = "conflict_checkout_b"
                  ELSE /\ LastIs(j + 1)
                       /\ IsGit(log[j + 1], "checkout_b")
                       /\ log[j + 1].a = log[j - 1].a
                       /\ pc = "done"
                       /\ outcome = IF log[j + 1].r = "ok" THEN "ok" ELSE "Err"

C8_Witness ==
    /\ cmd = "merge" /\ pc = "done" /\ outcome = "ok"
    /\ \E j \in LogIdx : ConflictNameUnusedAt(j) /\ LastIs(j + 1)
    /\ log[Len(log)] = GitEv("checkout_b", <<"n">>, << >>, "ok")
    /\ head = <<"n">>

\* every input that fails validation ends the run, at once, with the
\* validation error: an empty text input, a new name that exists, a merge
\* target that does not exist
ValidationEndsRun ==
    \A i \in LogIdx :
        /\ (log[i].k = "prompt" /\ log[i].op \in {"commit_message", "new_branch_name"}
                /\ log[i].a = << >>) =>
              (LastIs(i) /\ pc = "done" /\ outcome = "empty_input")
        /\ (i > 1 /\ IsPrompt(log[i - 1], "new_branch_name")
                /\ log[i] = GitEv("rev_parse_verify", log[i - 1].a, << >>, "ok")) =>
              (LastIs(i) /\ pc = "done" /\ outcome = "already_exists")
        /\ (i > 1 /\ cmd = "merge" /\ IsPrompt(log[i - 1], "select_branch")
                /\ log[i] = GitEv("rev_parse_verify", log[i - 1].a, << >>, "nonzero")) =>
              (LastIs(i) /\ pc = "done" /\ outcome = "not_found")

\* the run is the first one (the log of a later guard call holds the
\* commands of the earlier call too)
FirstRun == runs = 0

\* C9: in every workflow a validation failure (empty commit message, empty
\* branch name, new name that exists, merge target that does not exist) ends
\* the run with an error, and no side-effect command was issued earlier in
\* the run.
C9_ValidationBeforeSideEffects ==
    FirstRun =>
        /\ ValidationEndsRun
        /\ outcome \in ValidationErrors => SideEffectsIssued = {}

\* a Command Runner call in captured or interactive mode that failed
FailedCall(e) ==
    /\ e.k = "git" /\ e.op \in CapturedOps \cup InteractiveOps
    /\ RunnerResult(e.op, e.r) = "Err"

RemoteSteps == {"push_u", "pull", "fetch_prune", "push_delete",
                "confirm_push", "confirm_pull", "confirm_remote_delete"}

BothConfirmedBefore(i) ==
    /\ i > 2
    /\ log[i - 2] = PromptEv("confirm_repo_delete", Yes)
    /\ log[i - 1] = PromptEv("typed_confirmation", repo_name)

\* C11: repo delete removes .git only after the yes/no confirmation was
\* answered yes and then the typed confirmation equalled the directory
\* name; a declined or mismatched confirmation leaves .git alone and ends
\* successfully; without a .git directory the operation ends with an error
\* before any of its prompts.
C11_RepoDeleteTwoConfirmations ==
    cmd = "repo_delete" =>
        /\ \A i \in LogIdx :
              /\ log[i].op = "remove_dir_all" => BothConfirmedBefore(i)
              /\ (\/ log[i] = PromptEv("confirm_repo_delete", No)
                  \/ /\ IsPrompt(log[i], "typed_confirmation")
                     /\ log[i].a # repo_name) =>
                    /\ LastIs(i) /\ pc = "done" /\ outcome = "ok" /\ dotgit
                    /\ \A j \in LogIdx : log[j].op # "remove_dir_all"
              /\ log[i] = FsEv("exists", DotGit, "fail") =>
                    /\ LastIs(i) /\ pc = "done" /\ IsErr(outcome)
                    /\ \A j \in LogIdx :
                          log[j].op \notin {"confirm_repo_delete", "typed_confirmation"}
        /\ (~dotgit /\ pc = "done" /\ outcome = "ok") =>
              /\ log[Len(log)] = FsEv("remove_dir_all", DotGit, "ok")
              /\ BothConfirmedBefore(Len(log))

C11_Witness ==
    /\ cmd = "repo_delete" /\ pc = "done" /\ outcome = "ok" /\ ~dotgit
    /\ log[Len(log)] = FsEv("remove_dir_all", DotGit, "ok")
    /\ BothConfirmedBefore(Len(log))

\* the repository on disk: refs, working tree, configuration, .git itself
RepoState == <<locals, remotes, head, dirty, url, dotgit>>
\* the step issued an external command through the Command Runner last
StepEndsWithCommand ==
    Len(log') > Len(log) /\ log'[Len(log')].k = "git"

\* C12 as stated: in every workflow and repo subcommand the repository state
\* is changed only by a step that invokes the external tool through the
\* Command Runner.
C12_Original ==
    [][RepoState' # RepoState => StepEndsWithCommand]_vars

\* C12 amended: the repository state is changed only by a step that invokes
\* the external tool through the Command Runner, except by repo delete,
\* which removes .git through the file system after its two confirmations.
C12_OnlyRunnerChangesRepo ==
    [][RepoState' # RepoState =>
          \/ StepEndsWithCommand
          \/ /\ cmd = "repo_delete" /\ Len(log') = Len(log) + 1
             /\ log'[Len(log')].k = "fs"
             /\ log'[Len(log')].op = "remove_dir_all"
             /\ BothConfirmedBefore(Len(log) + 1)]_vars

C12_Witness ==
    /\ cmd = "remote_remove" /\ pc = "done" /\ outcome = "ok"
    /\ log[Len(log)] = GitEv("remote_remove", Origin, << >>, "ok")
    /\ url = "none" /\ remotes = {}

\* C13: in exit-code-only mode (merge, pull, rev-parse --verify) a zero
\* exit yields true and a non-zero exit yields false, never an error; in
\* captured and interactive mode a zero exit yields success and a non-zero
\* exit an error; in every mode a process that cannot be spawned yields an
\* error.
C13_RunnerModes ==
    (cmd = "command_runner" /\ pc = "done") =>
        /\ arg.exit = "spawn" => ret.value = "Err"
        /\ arg.op \in {"merge", "pull", "rev_parse_verify"} =>
              /\ arg.exit = "ok" => ret.value = "true"
              /\ arg.exit = "nonzero" => ret.value = "false"
        /\ arg.op \notin {"merge", "pull", "rev_parse_verify"} =>
              /\ arg.exit = "ok" => ret.value = "Ok"
              /\ arg.exit = "nonzero" => ret.value = "Err"

C13_Witness ==
    /\ cmd = "command_runner" /\ pc = "done"
    /\ arg.op = "merge" /\ arg.exit = "nonzero" /\ ret.value = "false"

\* C14: in every run of switch or merge, the checkout or merge command is
\* issued only after the working-tree status was queried.
C14_GuardBeforeCoreOperation ==
    cmd \in {"switch", "merge"} =>
        \A i \in LogIdx :
            (log[i].k = "git" /\ log[i].op \in {"checkout", "merge"}) =>
                \E j \in LogIdx :
                    /\ j < i
                    /\ log[j].k = "git" /\ log[j].op = "status_porcelain_v1"

\* switch has resolved its selection without a failing probe and has not
\* issued a checkout yet (so the branches are those it was started with)
SwitchDecided ==
    /\ cmd = "switch" /\ resolved # NoResolved /\ ~resolved.err
    /\ \A i \in LogIdx : ~IsGit(log[i], "checkout")
SwitchAsked == \E i \in LogIdx : IsPrompt(log[i], "confirm_switch_create")
SwitchConfirmed ==
    \E i \in LogIdx : IsPrompt(log[i], "confirm_switch_create") /\ log[i].a = Yes
SwitchLocalThere == resolved.local_candidate_name \in locals
SwitchRemoteThere == RefExists(resolved.remote_tracking_candidate_name)
\* the user is asked, and the checkout follows only a confirmation
SwitchViaConfirmation ==
    \/ pc = "switch_confirm" /\ ~SwitchAsked
    \/ pc = "switch_checkout" /\ SwitchConfirmed
    \/ pc = "done" /\ outcome = "ok" /\ SwitchAsked /\ ~SwitchConfirmed
\* a checkout is the last step of switch and is never issued against a "no"
SwitchCheckoutLast ==
    cmd = "switch" =>
        \A i \in LogIdx :
            IsGit(log[i], "checkout") =>
                /\ LastIs(i) /\ pc = "done"
                /\ log[i].a = resolved.local_candidate_name
                /\ SwitchAsked => SwitchConfirmed

\* C15 as stated: for every selected name, prefixed with "origin/" or not,
\* an existing local branch is checked out with no confirmation prompt; with
\* only the remote-tracking branch the user is asked and the checkout is
\* issued only on confirmation; otherwise not-found and no checkout.
C15_Original ==
    /\ SwitchCheckoutLast
    /\ SwitchDecided =>
          IF SwitchLocalThere
          THEN pc = "switch_checkout" /\ ~SwitchAsked
          ELSE IF SwitchRemoteThere THEN SwitchViaConfirmation
          ELSE pc = "done" /\ outcome = "not_found" /\ ~SwitchAsked

\* C15: an existing local branch is checked out with no confirmation prompt
\* when the selected name is not prefixed with "origin/"; for a selection
\* prefixed with "origin/" the local branch is not probed, and whenever the
\* remote-tracking branch exists the user is asked and the checkout is
\* issued only on confirmation (declining ends successfully); with neither,
\* switch ends with a not-found error and no checkout.
C15_SwitchCases ==
    /\ SwitchCheckoutLast
    /\ SwitchDecided =>
          IF SwitchLocalThere /\ ~starts_with(target, OriginPrefix)
          THEN pc = "switch_checkout" /\ ~SwitchAsked
          ELSE IF SwitchRemoteThere THEN SwitchViaConfirmation
          ELSE pc = "done" /\ outcome = "not_found" /\ ~SwitchAsked

C15_Witness ==
    /\ cmd = "switch" /\ pc = "done" /\ outcome = "ok"
    /\ starts_with(target, OriginPrefix)
    /\ SwitchConfirmed
    /\ IsGit(log[Len(log)], "checkout") /\ log[Len(log)].r = "ok"
    /\ head = resolved.local_candidate_name

\* C16: when merge asks for its target with current branch C, the options
\* offered are exactly all selectable branches minus C and minus origin/C.
C16_MergeOffersAllButCurrent ==
    (cmd = "merge" /\ pc = "select") =>
        OfferedOptions =
            get_branch_select_options_for_fuzzy \ {cur_b, OriginPrefix \o cur_b}

\* delete has resolved its selection, read the current branch and asked for
\* the URL of origin: what it presents is decided
DeleteDecided ==
    cmd = "delete" /\ \E i \in LogIdx : IsGit(log[i], "remote_get_url")
DeleteLocalAsked == \E i \in LogIdx : IsPrompt(log[i], "confirm_local_delete")
DeleteRemoteAsked == \E i \in LogIdx : IsPrompt(log[i], "confirm_remote_delete")
\* the refs of the selection as they were when delete started
DeleteLocalWasThere ==
    \/ resolved.local_candidate_name \in locals
    \/ \E i \in LogIdx : IsGit(log[i], "branch_delete_local_d") /\ log[i].r = "ok"
DeleteRemoteWasThere ==
    \/ RefExists(resolved.remote_tracking_candidate_name)
    \/ \E i \in LogIdx : IsGit(log[i], "push_delete") /\ log[i].r = "ok"
DeleteLocalFailed ==
    \E i \in LogIdx : IsGit(log[i], "branch_delete_local_d") /\ log[i].r # "ok"
\* each deletion command directly follows its own confirmation answered yes
DeletionsAfterOwnYes ==
    \A i \in LogIdx :
        /\ IsGit(log[i], "branch_delete_local_d") =>
              i > 1 /\ IsPrompt(log[i - 1], "confirm_local_delete")
                    /\ log[i - 1].a = Yes
        /\ IsGit(log[i], "push_delete") =>
              i > 1 /\ IsPrompt(log[i - 1], "confirm_remote_delete")
                    /\ log[i - 1].a = Yes

C18_Case ==
    /\ cmd = "delete" /\ DeleteDecided
    /\ starts_with(target, OriginPrefix)
    /\ DeleteRemoteWasThere
    /\ ~DeleteLocalWasThere
C18_Declined ==
    \E i \in LogIdx : IsPrompt(log[i], "confirm_remote_delete") /\ log[i].a = No
NoDeletionCommand ==
    \A i \in LogIdx :
        ~IsGit(log[i], "branch_delete_local_d") /\ ~IsGit(log[i], "push_delete")

\* C18 as stated: with selection origin/X, the remote-tracking ref existing
\* and no local X, the local prompt is never presented and the remote prompt
\* is; declining it issues no deletion command and ends successfully.
C18_Original ==
    C18_Case =>
        /\ ~DeleteLocalAsked
        /\ pc = "delete_confirm_remote" \/ DeleteRemoteAsked
        /\ C18_Declined =>
              /\ NoDeletionCommand /\ something_done = FALSE
              /\ pc = "done" /\ outcome = "ok"

\* C18: with selection origin/X, the remote-tracking ref existing, no local
\* X and a non-empty URL of origin, the local prompt is never presented and
\* the remote prompt is; declining it issues no deletion command, leaves
\* "no deletion performed" to be reported, and ends successfully.  Without
\* a URL of origin no prompt is presented and the run ends the same way.
C18_RemoteOnlyPrompt ==
    C18_Case =>
        /\ ~DeleteLocalAsked
        /\ IF remote_url # ""
           THEN pc = "delete_confirm_remote" \/ DeleteRemoteAsked
           ELSE ~DeleteRemoteAsked /\ pc = "done" /\ outcome = "ok"
        /\ (C18_Declined \/ remote_url = "") =>
              /\ NoDeletionCommand /\ something_done = FALSE
              /\ pc = "done" /\ outcome = "ok"

C18_Witness ==
    /\ C18_Case /\ C18_Declined
    /\ pc = "done" /\ outcome = "ok" /\ Len(target) = 2

\* create was given a non-empty name that the existence probe did not find,
\* in a repository without a remote origin
C19_Case ==
    /\ cmd = "create" /\ url = "none" /\ new_name # << >>
    /\ \E i \in LogIdx : IsGit(log[i], "rev_parse_verify") /\ log[i].r = "nonzero"
SideEffectEvents ==
    {i \in LogIdx : log[i].k = "git" /\ log[i].op \in SideEffectOps}
NoPushOffered == \A i \in LogIdx : ~IsPrompt(log[i], "confirm_push")
\* exactly one side-effect command was issued: git branch <new_name>
OnlyBranchCreated ==
    \E i \in LogIdx :
        /\ SideEffectEvents = {i}
        /\ IsGit(log[i], "branch_create_local") /\ log[i].a = new_name

\* C19 as stated: such a run issues exactly one side-effect command (create
\* local branch), presents no push prompt and ends successfully.
C19_Original ==
    C19_Case =>
        /\ NoPushOffered
        /\ pc = "done" => (OnlyBranchCreated /\ outcome = "ok")

\* C19: such a run issues exactly one side-effect command (create local
\* branch <name>), presents no push prompt, issues no checkout or push, and
\* ends successfully if that command succeeds, with an error if it fails.
C19_CreateWithoutRemote ==
    C19_Case =>
        /\ NoPushOffered
        /\ pc = "done" =>
              /\ OnlyBranchCreated
              /\ \A i \in SideEffectEvents :
                    IF log[i].r = "ok"
                    THEN outcome = "ok" /\ new_name \in locals
                    ELSE outcome = "Err"

C19_Witness ==
    /\ C19_Case /\ pc = "done" /\ outcome = "ok"
    /\ OnlyBranchCreated /\ new_name \in locals
    /\ IsGit(log[Len(log)], "remote_get_url")

\* the side-effect commands of the log, in the order they were issued
SideEffectOrder ==
    LET IsSideEffect(e) == e.k = "git" /\ e.op \in SideEffectOps
        evs == SelectSeq(log, IsSideEffect)
    IN  [i \in 1 .. Len(evs) |-> evs[i].op]
SaveOrder == <<"add", "commit", "push_u", "pull", "checkout_b">>

C21_CopyOnlyVerified ==
    cmd = "copy" =>
        \A i \in LogIdx :
            IsGit(log[i], "branch_create_local_from") =>
                /\ log[i].a # << >>
                /\ \E j \in LogIdx :
                      /\ j < i /\ IsGit(log[j], "rev_parse_verify")
                      /\ log[j].a = log[i].a /\ log[j].r = "nonzero"
                /\ RefExists(log[i].b)

\* the user cancelled the branch selection or answered no to an optional
\* step: push, pull, deletion of the merged branch, creation of the local
\* branch in switch, removal of the remote
OptionalConfirms == {"confirm_push", "confirm_pull", "confirm_merge_delete",
                     "confirm_switch_create", "confirm_remote_remove"}
Declined(e) ==
    \/ /\ IsPrompt(e, "select_branch") /\ e.a = << >>
       /\ cmd \in {"switch", "merge", "copy", "delete"}
    \/ e.k = "prompt" /\ e.op \in OptionalConfirms /\ e.a = No

\* C22: a cancelled selection or a declined optional step ends the workflow
\* with success, and nothing (no side-effect command in particular) is issued
\* after it.
C22_DeclineIsBenign ==
    \A i \in LogIdx :
        Declined(log[i]) => (LastIs(i) /\ pc = "done" /\ outcome = "ok")

C22_Witness ==
    /\ Len(log) > 0 /\ Declined(log[Len(log)])
    /\ log[Len(log)].op = "confirm_switch_create"
    /\ pc = "done" /\ outcome = "ok" /\ SideEffectsIssued = {}

(***************************************************************************)
(* Claims about the uncommitted-changes guard.  The log of a guard that is *)
(* called again holds one run after the other, each starting with its      *)
(* status query.                                                           *)
(***************************************************************************)
\* event i is the guard's menu answered with choice c, in a dirty tree
GuardChose(i, c) ==
    /\ cmd = "guard" /\ IsPrompt(log[i], "guard_select") /\ log[i].a = c
    /\ i > 1 /\ IsGit(log[i - 1], "status_porcelain_v1") /\ log[i - 1].r = "ok"
\* the guard run that event i belongs to has ended with event j
GuardRunEndsAt(j) ==
    IF LastIs(j) THEN pc \in {"done", "start"}
    ELSE IsGit(log[j + 1], "status_porcelain_v1")
\* the result of the guard run that ended with event j, while it is the last
\* run and the guard has not been called again
GuardReturned(j, result) == (LastIs(j) /\ pc = "done") => outcome = result

\* C23: in a dirty tree, Cancel or no selection makes the guard return abort
\* (Ok(false)) with no command after the status query.
C23_GuardCancel ==
    \A i \in LogIdx :
        (GuardChose(i, <<"Cancel">>) \/ GuardChose(i, << >>)) =>
            /\ GuardRunEndsAt(i)
            /\ GuardReturned(i, "Ok(false)")
            /\ LastIs(i) => dirty

C23_Witness ==
    /\ Len(log) = 2 /\ GuardChose(2, << >>)
    /\ pc = "done" /\ outcome = "Ok(false)" /\ dirty

\* the run has ended with an error at event j
EndedWithError(j, result) == LastIs(j) /\ pc = "done" /\ outcome = result
HasEv(j) == j \in LogIdx

C25_GuardCreateBranch ==
    /\ cmd = "guard" =>
          \A j \in LogIdx :
              IsGit(log[j], "branch_create_local") =>
                  /\ j > 3 /\ GuardChose(j - 3, <<"Create">>)
                  /\ IsPrompt(log[j - 2], "new_branch_name")
                  /\ log[j - 2].a = log[j].a /\ log[j].a # << >>
                  /\ IsGit(log[j - 1], "rev_parse_verify")
                  /\ log[j - 1].a = log[j].a /\ log[j - 1].r = "nonzero"
    /\ \A i \in LogIdx :
          GuardChose(i, <<"Create">>) =>
              /\ LastIs(i) => pc = "guard_name"
              /\ HasEv(i + 1) =>
                    IF log[i + 1].a = << >>
                    THEN EndedWithError(i + 1, "empty_input")
                    ELSE /\ LastIs(i + 1) => pc = "ensure_not_exists"
                         /\ HasEv(i + 2) =>
                               CASE log[i + 2].r = "ok" ->
                                        EndedWithError(i + 2, "already_exists")
                                 [] log[i + 2].r = "spawn" ->
                                        EndedWithError(i + 2, "Err")
                                 [] OTHER ->
                                        /\ LastIs(i + 2) => pc = "guard_create_branch"
                                        /\ HasEv(i + 3) =>
                                              IF log[i + 3].r # "ok"
                                              THEN EndedWithError(i + 3, "Err")
                                              ELSE /\ GuardRunEndsAt(i + 3)
                                                   /\ GuardReturned(i + 3, "Ok(false)")
                                                   /\ log[i + 3].a \in locals

C25_Witness ==
    /\ Len(log) = 5 /\ GuardChose(2, <<"Create">>)
    /\ IsGit(log[5], "branch_create_local") /\ log[5].r = "ok"
    /\ pc = "done" /\ outcome = "Ok(false)" /\ log[5].a \in locals

\* C26: after the guard's create-new-branch choice succeeded, the branch
\* checked out is the newly created one.
C26_GuardBranchCheckedOut ==
    (/\ cmd = "guard" /\ pc = "done" /\ Len(log) > 0
     /\ IsGit(log[Len(log)], "branch_create_local")
     /\ log[Len(log)].r = "ok") =>
        head = log[Len(log)].a

\* every hard reset of the guard directly follows the discard choice and a
\* second confirmation answered yes
ResetOnlyConfirmed ==
    cmd = "guard" =>
        \A j \in LogIdx :
            IsGit(log[j], "reset_hard_head") =>
                /\ j > 2 /\ GuardChose(j - 2, <<"Reset">>)
                /\ IsPrompt(log[j - 1], "confirm_reset") /\ log[j - 1].a = Yes
\* the discard choice is followed by the second confirmation; declined, no
\* reset is issued, the tree stays as it is and the guard returns abort
ResetDeclined(i) ==
    /\ LastIs(i) => pc = "guard_confirm_reset"
    /\ HasEv(i + 1) =>
          /\ IsPrompt(log[i + 1], "confirm_reset")
          /\ log[i + 1].a = No =>
                /\ GuardRunEndsAt(i + 1)
                /\ GuardReturned(i + 1, "Ok(false)")
                /\ LastIs(i + 1) => dirty
          /\ (log[i + 1].a = Yes /\ LastIs(i + 1)) => pc = "guard_reset"

\* C27 as stated: the hard reset is issued only after the second confirmation
\* was answered yes, and the guard then returns continue; declined, no reset,
\* an unchanged tree, abort.
C27_Original ==
    /\ ResetOnlyConfirmed
    /\ \A i \in LogIdx :
          GuardChose(i, <<"Reset">>) =>
              /\ ResetDeclined(i)
              /\ (HasEv(i + 2) /\ log[i + 1].a = Yes) =>
                    /\ GuardRunEndsAt(i + 2)
                    /\ GuardReturned(i + 2, "Ok(true)")

\* C27: the hard reset is issued only after the second confirmation was
\* answered yes; the guard then returns continue if the reset succeeds and
\* ends with an error if it fails; declined, no reset is issued, the tree is
\* left unchanged and the guard returns abort.
C27_GuardDiscard ==
    /\ ResetOnlyConfirmed
    /\ \A i \in LogIdx :
          GuardChose(i, <<"Reset">>) =>
              /\ ResetDeclined(i)
              /\ (HasEv(i + 2) /\ log[i + 1].a = Yes) =>
                    IF log[i + 2].r = "ok"
                    THEN /\ GuardRunEndsAt(i + 2)
                         /\ GuardReturned(i + 2, "Ok(true)")
                         /\ LastIs(i + 2) => ~dirty
                    ELSE EndedWithError(i + 2, "Err") /\ dirty

C27_Witness ==
    /\ Len(log) = 4 /\ GuardChose(2, <<"Reset">>)
    /\ IsGit(log[4], "reset_hard_head") /\ log[4].r = "ok"
    /\ pc = "done" /\ outcome = "Ok(true)" /\ ~dirty

\* the probes of candidate c among the queries of the resolver's result
ProbesOf(c) == {i \in 1 .. Len(ret.queries) : ret.queries[i].a = c}
C28_Returned == cmd = "resolve_branch_input" /\ pc = "returned"

\* C28 as stated: the remote candidate is probed exactly once for every
\* input, the local candidate iff the input does not start with "origin/",
\* and for an input that does, local_exists is false.
C28_Original ==
    C28_Returned =>
        LET prefixed == starts_with(arg.name, OriginPrefix)
        IN  /\ Cardinality(ProbesOf(remote_tracking_candidate_name(arg.name))) = 1
            /\ Cardinality(ProbesOf(local_candidate_name(arg.name))) =
                   (IF prefixed THEN 0 ELSE 1)
            /\ prefixed => ~ret.local_exists

\* C28: the local candidate is probed (once, first) iff the input does not
\* start with "origin/"; the remote candidate is probed exactly once for
\* every input, except that a local probe that cannot be run ends the
\* resolver with an error before the remote probe; for an input that starts
\* with "origin/", local_exists is false whatever the local probe would say.
C28_AsymmetricProbe ==
    C28_Returned =>
        LET prefixed == starts_with(arg.name, OriginPrefix)
            lc == local_candidate_name(arg.name)
            rc == remote_tracking_candidate_name(arg.name)
            localFailed == ~prefixed /\ arg.exitLocal = "spawn"
        IN  /\ Cardinality(ProbesOf(rc)) = (IF localFailed THEN 0 ELSE 1)
            /\ Cardinality(ProbesOf(lc)) = (IF prefixed THEN 0 ELSE 1)
            /\ Len(ret.queries) =
                   Cardinality(ProbesOf(rc)) + Cardinality(ProbesOf(lc))
            /\ ~prefixed => ret.queries[1].a = lc
            /\ localFailed => ret.err
            /\ prefixed => ~ret.local_exists

C28_Witness ==
    /\ C28_Returned /\ starts_with(arg.name, OriginPrefix)
    /\ arg.exitLocal = "ok" /\ arg.exitRemote = "ok"
    /\ ~ret.err /\ ~ret.local_exists /\ ret.remote_tracking_exists
    /\ Len(ret.queries) = 1

NoCheckoutB == \A k \in LogIdx : ~IsGit(log[k], "checkout_b")

\* C29: in conflict recovery, after the offer was accepted, checkout -b is
\* issued only for a non-empty name that does not resolve to an existing
\* ref; an empty or an existing name ends the workflow with an error, with
\* no checkout -b and the current branch unchanged.
C29_ConflictNameValidated ==
    cmd \in {"merge", "save"} =>
        /\ \A j \in LogIdx :
              IsGit(log[j], "checkout_b") =>
                  /\ ConflictNameUnusedAt(j - 1)
                  /\ log[j].a = log[j - 2].a
        /\ \A i \in LogIdx :
              log[i] = PromptEv("confirm_new_branch", Yes) =>
                  /\ LastIs(i) => pc = "conflict_name"
                  /\ HasEv(i + 1) =>
                        /\ IsPrompt(log[i + 1], "new_branch_name")
                        /\ IF log[i + 1].a = << >>
                           THEN /\ EndedWithError(i + 1, "empty_input")
                                /\ NoCheckoutB /\ head = cur_b
                           ELSE /\ LastIs(i + 1) => pc = "ensure_not_exists"
                                /\ (HasEv(i + 2) /\ log[i + 2].r = "ok") =>
                                      /\ IsGit(log[i + 2], "rev_parse_verify")
                                      /\ log[i + 2].a = log[i + 1].a
                                      /\ EndedWithError(i + 2, "already_exists")
                                      /\ NoCheckoutB /\ head = cur_b

C29_Witness ==
    /\ cmd = "save" /\ pc = "done" /\ outcome = "already_exists"
    /\ Len(log) > 2 /\ log[Len(log) - 2] = PromptEv("confirm_new_branch", Yes)
    /\ log[Len(log)].a \in locals
    /\ NoCheckoutB /\ head = cur_b

\* C30: merge started with a detached HEAD (no current branch name) ends
\* with an error after the query of the current branch: no selection prompt
\* is presented and no merge command is issued.
C30_MergeNeedsCurrentBranch ==
    (cmd = "merge" /\ head = << >>) =>
        /\ \A i \in LogIdx :
              /\ IsGit(log[i], "symbolic_ref_head") /\ i = 1
              /\ LastIs(i) /\ pc = "done" /\ IsErr(outcome)
        /\ pc \in {"start", "done"}

C30_Witness ==
    /\ cmd = "merge" /\ head = << >> /\ Len(log) = 1
    /\ log[1].r = "ok" /\ pc = "done" /\ outcome = "current_unknown"

\* C31: in merge, branch -d of the merged branch is issued only after a
\* successful merge of a target not prefixed with "origin/" and a confirmed
\* delete prompt; a failed merge is followed by conflict recovery and no
\* delete prompt; git merge is issued only after the target was verified to
\* exist.
C31_MergeDeleteOnlyAfterSuccess ==
    cmd = "merge" =>
        \A i \in LogIdx :
            /\ IsGit(log[i], "branch_delete_local_d") =>
                  /\ i > 2 /\ log[i].a = target
                  /\ ~starts_with(target, OriginPrefix)
                  /\ log[i - 1] = PromptEv("confirm_merge_delete", Yes)
                  /\ IsGit(log[i - 2], "merge") /\ log[i - 2].r = "ok"
            /\ IsPrompt(log[i], "confirm_merge_delete") =>
                  /\ i > 1 /\ IsGit(log[i - 1], "merge") /\ log[i - 1].r = "ok"
                  /\ ~starts_with(target, OriginPrefix)
            /\ (IsGit(log[i], "merge") /\ log[i].r = "nonzero") =>
                  /\ \A k \in LogIdx : ~IsPrompt(log[k], "confirm_merge_delete")
                  /\ IF LastIs(i) THEN pc = "conflict_confirm"
                     ELSE IsPrompt(log[i + 1], "confirm_new_branch")
            /\ IsGit(log[i], "merge") =>
                  /\ i > 1 /\ log[i].a = target
                  /\ log[i - 1] = GitEv("rev_parse_verify", target, << >>, "ok")

C31_Witness ==
    /\ cmd = "merge" /\ pc = "done" /\ outcome = "ok"
    /\ IsGit(log[Len(log)], "branch_delete_local_d") /\ log[Len(log)].r = "ok"
    /\ target \notin locals

(***************************************************************************)
(* Claims about the options offered for selection (checked under           *)
(* SpecOptions).                                                           *)
(***************************************************************************)
OptionsReturned ==
    cmd = "get_branch_select_options_for_fuzzy" /\ pc = "returned"
OptionIdx == 1 .. Len(ret.options)
OptionsWithValue(v) == {i \in OptionIdx : ret.options[i].value = v}
\* no value twice, every origin branch once, never the HEAD pointer, ordered
\* by display label
OptionsWellFormed ==
    /\ \A i, j \in OptionIdx :
          i # j => ret.options[i].value # ret.options[j].value
    /\ \A n \in arg.remotes : Cardinality(OptionsWithValue(OriginPrefix \o n)) = 1
    /\ \A i \in OptionIdx : ~contains_head_arrow(ret.options[i].value)
    /\ \A i, j \in OptionIdx :
          i < j => cmp_le(ret.options[i].display, ret.options[j].display)

\* C32: the options hold no value twice, every local branch once (value =
\* name), every origin branch once (value = "origin/" + name) and no HEAD
\* pointer line, ordered non-decreasingly by display label.
C32_OptionsComplete ==
    OptionsReturned =>
        /\ OptionsWellFormed
        /\ \A n \in arg.locals : Cardinality(OptionsWithValue(n)) = 1

\* the same for the local branches whose name does not contain "->"
C32_OptionsButArrowNames ==
    OptionsReturned =>
        /\ OptionsWellFormed
        /\ \A n \in arg.locals :
              Cardinality(OptionsWithValue(n)) = (IF contains_arrow(n) THEN 0 ELSE 1)

(***************************************************************************)
(* Remaining claims about the workflows (checked under Spec).              *)
(***************************************************************************)
\* the commands that only read the repository
QueryOps == {"branch_list_all_str", "branch_list_local_str", "status_porcelain_v1",
             "rev_parse_verify", "rev_parse_commit_id", "merge_base",
             "remote_get_url", "symbolic_ref_head", "show_branch_tree"}

\* C33: branch listing and tree issue only query commands, never a command
\* that changes repository state.
C33_ListingReadOnly ==
    cmd \in {"branch", "tree"} =>
        \A i \in LogIdx : log[i].k = "git" => log[i].op \in QueryOps

\* two events of one run: no status query of the guard, which starts a new
\* run of it, lies between them
SameRun(i, j) ==
    \A k \in LogIdx : (i < k /\ k <= j) => ~IsGit(log[k], "status_porcelain_v1")
\* no prompt is presented twice in a run, a command that failed is not
\* issued again in that run, and a command is issued again with the same
\* arguments only when it is a query, which several helpers may ask
NoRetry ==
    \A i, j \in LogIdx :
        (i < j /\ SameRun(i, j) /\ log[i].op = log[j].op) =>
            /\ log[i].k # "prompt"
            /\ log[i].k = "git" =>
                  /\ RunnerResult(log[i].op, log[i].r) # "Err"
                  /\ <<log[i].a, log[i].b>> = <<log[j].a, log[j].b>> =>
                        log[i].op \in QueryOps

\* C34: every workflow reaches a final outcome and stays there; no prompt is
\* presented twice in a run, and no command is issued again after it failed
\* or with the arguments it was already issued with.
C34_TerminatesWithoutRetry == []NoRetry /\ <>[](pc = "done")

C34_Witness ==
    /\ cmd = "create" /\ pc = "done" /\ outcome = "empty_input"
    /\ Len(log) = 1 /\ IsPrompt(log[1], "new_branch_name")

\* delete reached its end without a deletion having been performed
DeleteNothingDone ==
    cmd = "delete" /\ DeleteDecided /\ pc = "done" /\ ~something_done
\* what the resolver found for the selection
DeleteFoundNeither ==
    ~resolved.local_exists /\ ~resolved.remote_tracking_exists
\* a failed local deletion ends the run with an error, no remote prompt
LocalFailureEnds ==
    \A i \in LogIdx :
        (cmd = "delete" /\ IsGit(log[i], "branch_delete_local_d")
                        /\ log[i].r # "ok") =>
            /\ EndedWithError(i, "Err")
            /\ ~DeleteRemoteAsked

\* C35 as stated: with no deletion performed, delete ends with not-found
\* when neither ref of the selection exists and successfully when one does;
\* a failed local deletion ends with an error before the remote prompt.
C35_Original ==
    /\ DeleteNothingDone =>
          IF DeleteFoundNeither THEN outcome = "not_found" ELSE outcome = "ok"
    /\ LocalFailureEnds

\* C35: with no deletion command issued, delete ends with not-found when
\* neither ref of the selection exists, with an error when the local branch
\* is the current one, and successfully otherwise; a failed local deletion
\* ends with an error before the remote prompt.
C35_DeleteOutcome ==
    /\ (DeleteNothingDone /\ NoDeletionCommand) =>
          IF DeleteFoundNeither THEN outcome = "not_found"
          ELSE IF resolved.local_exists /\ cur_b = resolved.local_candidate_name
               THEN outcome = "cannot_delete_current"
               ELSE outcome = "ok"
    /\ LocalFailureEnds

C35_Witness ==
    /\ DeleteNothingDone /\ NoDeletionCommand /\ ~DeleteFoundNeither
    /\ outcome = "ok"
    /\ \E i \in LogIdx : IsPrompt(log[i], "confirm_local_delete") /\ log[i].a = No
    /\ \E i \in LogIdx : IsPrompt(log[i], "confirm_remote_delete") /\ log[i].a = No

\* the events of prompt_and_push_optional in create and copy
PushOptionalRuns == cmd \in {"create", "copy"}
\* the push follows the url query that answered a non-empty url, the
\* confirmation answered yes and the successful checkout of the new branch
PushOnlyConfirmed ==
    \A i \in LogIdx :
        /\ IsGit(log[i], "push_u") =>
              /\ i > 3 /\ log[i].a = new_name
              /\ IsGit(log[i - 1], "checkout") /\ log[i - 1].a = new_name
              /\ log[i - 1].r = "ok"
              /\ IsPrompt(log[i - 2], "confirm_push") /\ log[i - 2].a = Yes
              /\ IsGit(log[i - 3], "remote_get_url") /\ log[i - 3].r = "ok"
              /\ url = "set"
        /\ IsGit(log[i], "checkout") =>
              /\ i > 1 /\ IsPrompt(log[i - 1], "confirm_push")
              /\ log[i - 1].a = Yes
              /\ log[i].r # "ok" => EndedWithError(i, "Err")
\* a declined push ends the workflow at once
PushDeclinedEnds ==
    \A i \in LogIdx :
        (IsPrompt(log[i], "confirm_push") /\ log[i].a = No) =>
            LastIs(i) /\ pc = "done" /\ outcome = "ok"
\* the step that takes the declining answer leaves the current branch alone
PushDeclinedStep ==
    (pc = "push_confirm" /\ pc' = "done") => head' = head

\* C36: in create and copy the push is issued only with a non-empty origin
\* url and a confirmation, after the successful checkout of the new branch;
\* a failed checkout ends with an error without a push; a declined push
\* issues neither command and leaves the current branch unchanged.
C36_PushOptional ==
    /\ [](PushOptionalRuns => (PushOnlyConfirmed /\ PushDeclinedEnds))
    /\ [][PushOptionalRuns => PushDeclinedStep]_vars

C36_Witness ==
    /\ cmd = "copy" /\ pc = "done" /\ outcome = "Err"
    /\ Len(log) > 1 /\ IsGit(log[Len(log)], "checkout")
    /\ log[Len(log)].r # "ok"
    /\ IsPrompt(log[Len(log) - 1], "confirm_push")

\* remote add: the add command directly follows a get-url query that failed
\* or answered an empty url; a query that answered a url ends the run with
\* an error
RemoteAddGuarded ==
    cmd = "remote_add" =>
        \A i \in LogIdx :
            /\ IsGit(log[i], "remote_add") =>
                  /\ i > 1 /\ IsGit(log[i - 1], "remote_get_url")
                  /\ log[i - 1].r = "ok" => url = "empty"
            /\ (IsGit(log[i], "remote_get_url") /\ log[i].r = "ok"
                    /\ url = "set") =>
                  LastIs(i) /\ pc = "done" /\ outcome = "remote_exists"
\* remote set-url: the command directly follows a query that succeeded; a
\* failed query ends the run with an error
RemoteSetUrlGuarded ==
    cmd = "remote_set_url" =>
        \A i \in LogIdx :
            /\ IsGit(log[i], "remote_set_url") =>
                  /\ i > 1 /\ IsGit(log[i - 1], "remote_get_url")
                  /\ log[i - 1].r = "ok"
            /\ (IsGit(log[i], "remote_get_url") /\ log[i].r # "ok") =>
                  LastIs(i) /\ pc = "done" /\ outcome = "remote_missing"
\* remote remove: the confirmation follows a query that answered a url, the
\* command follows the confirmation answered yes
RemoteRemoveGuarded ==
    cmd = "remote_remove" =>
        \A i \in LogIdx :
            /\ IsPrompt(log[i], "confirm_remote_remove") =>
                  /\ i > 1 /\ IsGit(log[i - 1], "remote_get_url")
                  /\ log[i - 1].r = "ok"
                  /\ LastIs(i) => url = "set"
            /\ IsGit(log[i], "remote_remove") =>
                  /\ i > 1 /\ IsPrompt(log[i - 1], "confirm_remote_remove")
                  /\ log[i - 1].a = Yes
                  /\ url = (IF log[i].r = "ok" THEN "none" ELSE "set")
\* the refusal of remote add changes nothing
RemoteAddRefusal ==
    (cmd = "remote_add" /\ outcome' = "remote_exists") =>
        url' = url /\ remotes' = remotes

\* C37: remote add issues its command only when origin does not resolve to
\* a non-empty url and otherwise ends with an error leaving the remote
\* unchanged; remote set-url issues its command only after a successful
\* get-url query and otherwise ends with an error; remote remove issues its
\* command only for a non-empty url and after the user confirmed.
C37_RemotePreconditions ==
    /\ [](RemoteAddGuarded /\ RemoteSetUrlGuarded /\ RemoteRemoveGuarded)
    /\ [][RemoteAddRefusal]_vars

C37_Witness ==
    /\ cmd = "remote_set_url" /\ pc = "done" /\ outcome = "remote_missing"
    /\ IsGit(log[Len(log)], "remote_get_url") /\ log[Len(log)].r # "ok"
    /\ url = "set"

\* C38: for every input and every scripted answer, the resolver and the
\* classifier of src/src/utils.rs and of src/my-git-helper/src/utils.rs
\* issue the same queries in the same order and return the same result or
\* the same error.
C38_RevisionsEquivalent ==
    pc = "returned" => ret.src = ret.helper

C38_Witness ==
    /\ cmd = "resolve_branch_input" /\ pc = "returned"
    /\ arg.name = <<"origin/", "origin/", "a">>
    /\ ret.helper.local_candidate_name = <<"a">>
    /\ Len(ret.helper.queries) = 1 /\ ~ret.helper.err

IsFs(e, op) == e.k = "fs" /\ e.op = op
\* repo create refused an existing target: nothing was created or entered
RepoCreateRefusal ==
    outcome = "dir_exists" =>
        /\ pc = "done" /\ cwd = "orig" /\ newdir # "absent"
        /\ \A i \in LogIdx :
              /\ ~IsFs(log[i], "create_dir_all")
              /\ ~IsFs(log[i], "set_current_dir")
              /\ ~IsGit(log[i], "init")
\* a failed init is reported as an error
FailedInitReported ==
    (pc = "done" /\ \E i \in LogIdx : IsGit(log[i], "init") /\ log[i].r # "ok")
        => outcome = "Err"
\* the way back to the original directory failed
RestoreFailed ==
    /\ Len(log) > 0 /\ IsFs(log[Len(log)], "set_current_dir")
    /\ log[Len(log)].a = <<"original_dir">> /\ log[Len(log)].r = "fail"

\* C39 as stated: repo create refuses an existing target without creating
\* or entering anything; otherwise the working directory after the call is
\* the one before it, and a failed init is reported as an error.
C39_Original ==
    cmd = "repo_create" =>
        /\ RepoCreateRefusal
        /\ pc = "done" => cwd = "orig"
        /\ FailedInitReported

\* C39: repo create refuses an existing target without creating or entering
\* anything; otherwise the working directory after the call is the one
\* before it unless the change back to it failed, which ends with an error
\* inside the new directory; a failed init is reported as an error.
C39_WorkingDirectoryRestored ==
    cmd = "repo_create" =>
        /\ RepoCreateRefusal
        /\ pc = "done" =>
              IF RestoreFailed THEN cwd = "new" /\ outcome = "Err"
              ELSE cwd = "orig"
        /\ FailedInitReported

C39_Witness ==
    /\ cmd = "repo_create" /\ pc = "done" /\ outcome = "Err" /\ cwd = "orig"
    /\ Len(log) > 1 /\ IsFs(log[Len(log)], "set_current_dir")
    /\ log[Len(log)].r = "ok"
    /\ IsGit(log[Len(log) - 1], "init") /\ log[Len(log) - 1].r # "ok"

====
